---- MODULE Spec2Model ----
(***************************************************************************)
(* Model of the dashboard's model-building engine                          *)
(* (tools/dashboard_cli.py: fetch_rows_window, classify_message,           *)
(* channel_weight, calc_vp, build_core_model).                             *)
(*                                                                         *)
(* Number representation.  The code computes in binary floating point;    *)
(* the model computes the same quantities exactly, as scaled integers:     *)
(*   raw scores                       in tenths       (6.0  -> 60)         *)
(*   channel weights                  in tenths       (1.2  -> 12)         *)
(*   trust (ts)                       in whole points (40.0 -> 40)         *)
(*   effective scores                 in thousandths  (raw10 * ts)         *)
(* Time is counted in whole hours since the epoch: a timestamp t lies on   *)
(* calendar day t \div 24 at hour t % 24.                                  *)
(* Strings that the code searches (channel names, keyword hints) are       *)
(* tuples of one-character strings; message texts are tuples of pieces,    *)
(* each piece a run of characters of one class (see classify_message).     *)
(***************************************************************************)
EXTENDS Integers, Sequences, FiniteSets, TLC

(* None, and the empty string, which every test of the code treats alike   *)
(* (content or "", username or ..., name and name.strip())                 *)
Nothing == <<>>
(* an optional number: Nothing, or <<v>> *)
Some(v) == <<v>>

Max(a, b) == IF a >= b THEN a ELSE b
Min(a, b) == IF a <= b THEN a ELSE b

(* dict.get(k, default) on a function with a finite domain *)
Get(f, k, default) == IF k \in DOMAIN f THEN f[k] ELSE default

(* d[k] += v on a defaultdict *)
AddAt(f, k, v, zero) ==
  [x \in DOMAIN f \cup {k} |-> IF x = k THEN Get(f, k, zero) + v ELSE f[x]]

(* d[k].add(v) on a defaultdict(set) *)
AddTo(f, k, v) ==
  [x \in DOMAIN f \cup {k} |-> IF x = k THEN Get(f, k, {}) \cup {v} ELSE f[x]]

Range(s) == {s[i] : i \in DOMAIN s}

RECURSIVE SumSeq(_)
SumSeq(s) == IF s = <<>> THEN 0 ELSE Head(s) + SumSeq(Tail(s))

RECURSIVE SumOver(_, _)
SumOver(f, S) ==
  IF S = {} THEN 0
  ELSE LET x == CHOOSE y \in S : TRUE IN f[x] + SumOver(f, S \ {x})

(***************************************************************************)
(* Program constants                                                       *)
(***************************************************************************)
CATEGORY_ORDER == <<"INFO", "INSIGHT", "VIBE", "OPS", "MISC">>
Categories == Range(CATEGORY_ORDER)

(* CATEGORY_CP, in whole points *)
CATEGORY_CP ==
  [c \in Categories |->
     CASE c = "INFO" -> 5 [] c = "INSIGHT" -> 4 [] c = "VIBE" -> 3
       [] c = "OPS" -> 4 [] c = "MISC" -> 1]

(* REACTION_GIVE_CP = 1.0, in tenths *)
REACTION_GIVE_CP == 10
(* DEFAULT_TS = 100.0, in points *)
DEFAULT_TS == 100
MAX_VP == 6
(* fetch_rows_window's default chunk_size *)
DEFAULT_CHUNK_SIZE == 1000
(* len(meaningful) < 5 and len(text) > 200 in classify_message *)
VIBE_MIN_LEN == 5
INSIGHT_MIN_LEN == 200

OPS_CHANNEL_HINTS ==
  << <<"o","p","s">>,
     <<"o","p","e","r","a","t","i","o","n">>,
     <<"U+904B","U+55B6">>,
     <<"a","d","m","i","n">>,
     <<"U+544A","U+77E5">>,
     <<"s","c","h","e","d","u","l","e">>,
     <<"t","a","s","k">>,
     <<"c","o","o","r","d">> >>

PROJECT_CHANNEL_HINTS ==
  << <<"U+958B","U+767A">>,
     <<"d","e","v">>,
     <<"p","r","o","j","e","c","t">>,
     <<"U+8FB2","U+696D">>,
     <<"U+672C","U+306E","U+30B3","U+30E2","U+30F3","U+30BA">>,
     <<"b","u","i","l","d">>,
     <<"t","e","c","h">>,
     <<"e","n","g","i","n","e","e","r">> >>

KNOWLEDGE_CHANNEL_HINTS ==
  << <<"U+5B66","U+3073">>,
     <<"l","e","a","r","n">>,
     <<"s","t","u","d","y">>,
     <<"k","n","o","w","l","e","d","g","e">>,
     <<"U+8A18","U+4E8B">>,
     <<"s","h","a","r","e">>,
     <<"n","e","w","s">>,
     <<"p","a","p","e","r">> >>

HOBBY_CHANNEL_HINTS ==
  << <<"U+30B2","U+30FC","U+30E0">>,
     <<"g","a","m","e">>,
     <<"U+97F3","U+697D">>,
     <<"m","u","s","i","c">>,
     <<"h","o","b","b","y">>,
     <<"m","o","v","i","e">>,
     <<"a","n","i","m","e">> >>

(***************************************************************************)
(* Strings                                                                 *)
(***************************************************************************)
UpperToLower ==
  [c \in {"A","B","C","D","E","F","G","H","I","J","K","L","M",
          "N","O","P","Q","R","S","T","U","V","W","X","Y","Z"} |->
     CASE c = "A" -> "a" [] c = "B" -> "b" [] c = "C" -> "c" [] c = "D" -> "d"
       [] c = "E" -> "e" [] c = "F" -> "f" [] c = "G" -> "g" [] c = "H" -> "h"
       [] c = "I" -> "i" [] c = "J" -> "j" [] c = "K" -> "k" [] c = "L" -> "l"
       [] c = "M" -> "m" [] c = "N" -> "n" [] c = "O" -> "o" [] c = "P" -> "p"
       [] c = "Q" -> "q" [] c = "R" -> "r" [] c = "S" -> "s" [] c = "T" -> "t"
       [] c = "U" -> "u" [] c = "V" -> "v" [] c = "W" -> "w" [] c = "X" -> "x"
       [] c = "Y" -> "y" [] c = "Z" -> "z"]

(* str.lower() *)
Lower(s) == [i \in DOMAIN s |-> Get(UpperToLower, s[i], s[i])]

(* needle in haystack *)
IsSubstring(needle, haystack) ==
  \E i \in 1..(Len(haystack) - Len(needle) + 1) :
    SubSeq(haystack, i, i + Len(needle) - 1) = needle

contains_any(text, keywords) ==
  LET lowered == Lower(text)
  IN \E j \in DOMAIN keywords : IsSubstring(Lower(keywords[j]), lowered)

Digit == <<"0","1","2","3","4","5","6","7","8","9">>

(* str(n) for n >= 0 *)
RECURSIVE IntToStr(_)
IntToStr(n) ==
  IF n < 10 THEN <<Digit[n + 1]>>
  ELSE Append(IntToStr(n \div 10), Digit[(n % 10) + 1])

(* f"channel-{channel_id}" *)
SyntheticChannelName(channel_id) ==
  <<"c","h","a","n","n","e","l","-">> \o IntToStr(channel_id)

(* not (name and str(name).strip()) *)
IsBlank(name) == \A i \in DOMAIN name : name[i] = " "

normalize_channel_name(name, channel_id) ==
  IF ~IsBlank(name) THEN name ELSE SyntheticChannelName(channel_id)

(***************************************************************************)
(* Classifier                                                              *)
(***************************************************************************)
(* the hobby hints tested before the project and knowledge hints *)
channel_weight_hobby_first(channel_name) ==
  LET lower == Lower(channel_name)
  IN IF contains_any(lower, HOBBY_CHANNEL_HINTS) THEN 8
     ELSE IF contains_any(lower, PROJECT_CHANNEL_HINTS)
             \/ contains_any(lower, KNOWLEDGE_CHANNEL_HINTS) THEN 12
     ELSE 10

(* in tenths *)
channel_weight(channel_name) ==
  LET lower == Lower(channel_name)
  IN IF contains_any(lower, PROJECT_CHANNEL_HINTS)
        \/ contains_any(lower, KNOWLEDGE_CHANNEL_HINTS) THEN 12
     ELSE IF contains_any(lower, HOBBY_CHANNEL_HINTS) THEN 8
     ELSE 10

(* A text is a tuple of pieces [k |-> kind, n |-> how many times]:        *)
(*   "w"     an alphanumeric character (\w other than "_")                 *)
(*   "_"     an underscore                                                 *)
(*   "p"     any other non-space character (punctuation, symbols)          *)
(*   "s"     a whitespace character                                        *)
(*   "http"  the literal "http://"  (in any letter case)                   *)
(*   "https" the literal "https://"                                        *)
(*   "www"   the literal "www."                                            *)
(* The alphanumeric characters of "w" pieces spell none of the literals.   *)
PieceKinds == {"w", "_", "p", "s", "http", "https", "www"}

(* characters of one occurrence of a piece, and how many are alphanumeric *)
KindLen(k) ==
  CASE k = "http" -> 7 [] k = "https" -> 8 [] k = "www" -> 4 [] OTHER -> 1
KindWordLen(k) ==
  CASE k = "http" -> 4 [] k = "https" -> 5 [] k = "www" -> 3
    [] k = "w" -> 1 [] OTHER -> 0

(* the character classes of a text, piece by piece, each repeated n times *)
RECURSIVE TextLen(_)
TextLen(t) ==
  IF t = <<>> THEN 0 ELSE KindLen(Head(t).k) * Head(t).n + TextLen(Tail(t))

(* str.strip() *)
RECURSIVE LStrip(_)
LStrip(t) ==
  IF t # <<>> /\ (Head(t).k = "s" \/ Head(t).n = 0) THEN LStrip(Tail(t)) ELSE t
RECURSIVE RStrip(_)
RStrip(t) ==
  IF t # <<>> /\ (t[Len(t)].k = "s" \/ t[Len(t)].n = 0)
  THEN RStrip(SubSeq(t, 1, Len(t) - 1)) ELSE t
Strip(t) == RStrip(LStrip(t))

(* str(content or ""): a missing content is the empty text *)
StrOrEmpty(content) == content

(* URL_RE.search(text): (https?://\S+|www\.\S+), IGNORECASE.  A literal    *)
(* matches when a non-whitespace character follows it: a repetition of the *)
(* literal itself, or the next piece.                                      *)
URL_RE_search(t) ==
  \E i \in DOMAIN t :
    /\ t[i].k \in {"http", "https", "www"}
    /\ t[i].n >= 1
    /\ \/ t[i].n >= 2
       \/ i < Len(t) /\ t[i + 1].k # "s"

(* len(NON_WORD_RE.sub("", text)): [\W_]+ removes everything that is not   *)
(* alphanumeric                                                            *)
RECURSIVE MeaningfulLen(_)
MeaningfulLen(t) ==
  IF t = <<>> THEN 0
  ELSE KindWordLen(Head(t).k) * Head(t).n + MeaningfulLen(Tail(t))

classify_message_length_first(content, channel_name) ==
  LET text == Strip(StrOrEmpty(content))
  IN IF text = <<>> THEN "MISC"
     ELSE IF URL_RE_search(text) THEN "INFO"
     ELSE IF MeaningfulLen(text) < VIBE_MIN_LEN THEN "VIBE"
     ELSE IF contains_any(channel_name, OPS_CHANNEL_HINTS) THEN "OPS"
     ELSE IF TextLen(text) > INSIGHT_MIN_LEN THEN "INSIGHT"
     ELSE "MISC"

classify_message(content, channel_name) ==
  LET text == Strip(StrOrEmpty(content))
  IN IF text = <<>> THEN "MISC"
     ELSE IF URL_RE_search(text) THEN "INFO"
     ELSE IF contains_any(channel_name, OPS_CHANNEL_HINTS) THEN "OPS"
     ELSE IF MeaningfulLen(text) < VIBE_MIN_LEN THEN "VIBE"
     ELSE IF TextLen(text) > INSIGHT_MIN_LEN THEN "INSIGHT"
     ELSE "MISC"

(***************************************************************************)
(* Voting power                                                            *)
(***************************************************************************)
(* the logarithm rounded up instead of down *)
RECURSIVE FloorLog2_rounded_up(_, _)
FloorLog2_rounded_up(num, den) ==
  IF num <= den THEN 0 ELSE 1 + FloorLog2_rounded_up(num, 2 * den)

(* floor(log2(num / den)) for num >= den > 0: the largest k with           *)
(* 2^k * den <= num                                                        *)
RECURSIVE FloorLog2(_, _)
FloorLog2(num, den) == IF num < 2 * den THEN 0 ELSE 1 + FloorLog2(num, 2 * den)

calc_vp_uncapped(effective_cp_total) ==
  IF effective_cp_total <= 0 THEN 1
  ELSE Max(1, FloorLog2(effective_cp_total + 1000, 1000) + 1)

(* effective_cp_total in thousandths *)
calc_vp(effective_cp_total) ==
  IF effective_cp_total <= 0 THEN 1
  ELSE LET vp == FloorLog2(effective_cp_total + 1000, 1000) + 1
       IN Max(1, Min(MAX_VP, vp))

(***************************************************************************)
(* State                                                                   *)
(***************************************************************************)
VARIABLES
  pc,                  \* where the running call stands
  cfg,                 \* build_core_model's arguments
  now,                 \* datetime.now(timezone.utc), read once per build
  db_messages,         \* the store's messages table, as ORDER BY timestamp DESC yields it
  db_reactions,        \* the store's reactions table, as ORDER BY created_at DESC yields it
  db_members,          \* the store's members table: user id -> the row's trust columns
  fetch,               \* fetch_rows_window's locals: rows, start, max_rows, chunk_size
  messages, reactions, channels,
  seen_user_ids,
  users, member_ts_by_user,
  user_stats,          \* a dict in insertion order: the tuple of its values
  message_owner, channel_stats, channel_user_cp, category_totals,
  daily_total_cp, daily_total_messages, daily_active_users,
  heatmap_messages, heatmap_cp, edge_weights,
  cursor,              \* position of the running for loop
  ranked_30d, ranked_total,
  model,               \* the dict build_core_model returns
  call,                \* a direct call of a pure function: its arguments and result
  faults,              \* the tables whose requests raise during the running build
  exc,                 \* the exception that left build_core_model: the table that raised
  cache,               \* DashboardTUI.cache.get("core")
  last_error,          \* DashboardTUI.last_error
  refreshes,           \* calls of refresh_current_page made so far
  cached_from,         \* history: the clock, snapshot and faults of the build in the cache
  storage_backend,     \* config.storage_backend: "supabase" or "memory"
  users_table,         \* the store's users table: user id -> its row, if any
  messages_table,      \* the store's messages table: message id -> its row, if any
  reactions_table,     \* the store's reactions table: the (message, user, type) keys
  nlp_task_queue,      \* QualityBot._nlp_task_queue
  tasks,               \* the handler coroutines in flight, each at an await
  nlp_worker,          \* the coroutine QualityBot._nlp_worker
  memory_lock,         \* MemoryStorage._lock: its holder, 0 when free
  events,              \* history: the events dispatched so far
  credited,            \* history: the weight additions made for each reaction key
  users_at_start       \* history: the users table before the first event

faultVars == <<faults, exc>>
tuiVars == <<cache, last_error, refreshes, cached_from>>
dashVars == <<pc, cfg, now, db_messages, db_reactions, db_members, fetch,
              messages, reactions, channels, seen_user_ids, users,
              member_ts_by_user, user_stats, message_owner, channel_stats,
              channel_user_cp, category_totals, daily_total_cp,
              daily_total_messages, daily_active_users, heatmap_messages,
              heatmap_cp, edge_weights, cursor, ranked_30d, ranked_total,
              model, call, faults, exc, cache, last_error, refreshes,
              cached_from>>
storeVars == <<users_table, messages_table, reactions_table>>
botVars == <<storage_backend, users_table, messages_table, reactions_table,
             nlp_task_queue, tasks, nlp_worker, memory_lock, events, credited,
             users_at_start>>
cfgVars == <<cfg, now>>
dbVars == <<db_messages, db_reactions, db_members>>
fetchedVars == <<messages, reactions, channels>>
refVars == <<seen_user_ids, users, member_ts_by_user>>
aggVars == <<message_owner, channel_stats, channel_user_cp, category_totals,
             daily_total_cp, daily_total_messages, daily_active_users,
             heatmap_messages, heatmap_cp>>
vars == <<pc, cfg, now, db_messages, db_reactions, db_members, fetch,
          messages, reactions, channels, seen_user_ids, users,
          member_ts_by_user, user_stats, message_owner, channel_stats,
          channel_user_cp, category_totals, daily_total_cp,
          daily_total_messages, daily_active_users, heatmap_messages,
          heatmap_cp, edge_weights, cursor, ranked_30d, ranked_total, model,
          call, faults, exc, cache, last_error, refreshes, cached_from,
          storage_backend, users_table, messages_table, reactions_table,
          nlp_task_queue, tasks, nlp_worker, memory_lock, events, credited,
          users_at_start>>

(***************************************************************************)
(* Time                                                                    *)
(***************************************************************************)
(* datetime.date(), .hour, .weekday() (Monday = 0; day 0 is a Thursday) *)
DateOf(t) == t \div 24
HourOf(t) == t % 24
WeekdayOf(t) == (DateOf(t) + 3) % 7
(* t - timedelta(days=d) *)
MinusDays(t, d) == t - d * 24

(***************************************************************************)
(* The store's reference tables                                            *)
(***************************************************************************)
(* channels: channel_id, name.  Channel 3 has a blank name, channel 4 no   *)
(* row.  "dev-game" carries a project and a hobby hint, "game-admin" an    *)
(* operations and a hobby hint.                                            *)
db_channels ==
  << [channel_id |-> 1, name |-> <<"d","e","v","-","g","a","m","e">>],
     [channel_id |-> 2,
      name |-> <<"O","p","s","-","a","n","n","o","u","n","c","e","m","e","n","t","s">>],
     [channel_id |-> 3, name |-> <<" ">>],
     [channel_id |-> 5, name |-> <<"m","u","s","i","c">>],
     [channel_id |-> 6, name |-> <<"g","e","n","e","r","a","l">>],
     [channel_id |-> 7, name |-> <<"S","t","u","d","y","-","H","a","l","l">>],
     [channel_id |-> 8, name |-> <<"g","a","m","e","-","a","d","m","i","n">>] >>

(* users: user_id, username.  User 3 has no row. *)
db_users ==
  << [user_id |-> 1, username |-> <<"a","l","i","c","e">>],
     [user_id |-> 2, username |-> <<"B","o","b">>] >>

(***************************************************************************)
(* fetch_rows_window                                                       *)
(***************************************************************************)
(* .gte(date_column, since).order(date_column, desc=True): the table's     *)
(* rows at or after the cutoff, newest first                               *)
RowsSince(table, date_column, since) ==
  SelectSeq(table, LAMBDA r : r[date_column] >= since)

(* .range(start, end): the rows at offsets start..end, both inclusive *)
RangeOf(rows, start, end) ==
  SubSeq(rows, start + 1, Min(end + 1, Len(rows)))

FetchStart(max_rows, chunk_size) ==
  [rows |-> <<>>, start |-> 0, max_rows |-> Max(1, max_rows),
   chunk_size |-> chunk_size, last_batch |-> 0, last_take |-> 0]

PageTake_uncapped(f) == f.chunk_size

(* take = min(chunk_size, remaining) *)
PageTake(f) == Min(f.chunk_size, f.max_rows - Len(f.rows))

(* one pass of the while loop: one page request *)
FetchPage(f, table, date_column, since) ==
  LET take == PageTake(f)
      end == f.start + take - 1
      batch == RangeOf(RowsSince(table, date_column, since), f.start, end)
  IN [rows |-> f.rows \o batch,
      start |-> IF Len(batch) < take THEN f.start ELSE f.start + take,
      max_rows |-> f.max_rows,
      chunk_size |-> f.chunk_size,
      last_batch |-> Len(batch),
      last_take |-> take]

(* the loop ends on a short page (break) or when the cap is reached *)
FetchDone(f) == f.last_batch < f.last_take \/ ~(Len(f.rows) < f.max_rows)

scan_days == Max(30, Max(cfg.trend_days, cfg.lookback_days))
since_dt == MinusDays(now, scan_days)
day_30_ago == DateOf(MinusDays(now, 30))
day_7_ago == DateOf(MinusDays(now, 7))
trend_start == DateOf(MinusDays(now, Max(1, cfg.trend_days) - 1))

(***************************************************************************)
(* Reference fetches                                                       *)
(***************************************************************************)
(* the scan of lines 463-475: the distinct non-zero user ids of the rows,  *)
(* in the order first seen                                                 *)
SeenUsers(rows, seen) ==
  LET fresh == {rows[i].user_id : i \in 1..Len(rows)} \ ({0} \cup Range(seen))
      first(uid) == CHOOSE i \in 1..Len(rows) :
                      /\ rows[i].user_id = uid
                      /\ \A j \in 1..(i - 1) : rows[j].user_id # uid
      nth(k) == CHOOSE uid \in fresh :
                  Cardinality({v \in fresh : first(v) < first(uid)}) = k - 1
  IN seen \o [k \in 1..Cardinality(fresh) |-> nth(k)]

(* values[:n] *)
Take(values, n) == SubSeq(values, 1, Min(n, Len(values)))

(* chunked(values, size) *)
RECURSIVE chunked(_, _)
chunked(values, size) ==
  IF values = <<>> THEN <<>>
  ELSE <<Take(values, size)>> \o chunked(SubSeq(values, size + 1, Len(values)), size)

ID_CHUNK == 400

(* .in_(column, ids) on a table *)
RowsIn(table, column, ids) ==
  SelectSeq(table, LAMBDA r : r[column] \in Range(ids))

RECURSIVE FetchChunks(_, _, _)
FetchChunks(table, column, chunks) ==
  IF chunks = <<>> THEN <<>>
  ELSE RowsIn(table, column, Head(chunks)) \o FetchChunks(table, column, Tail(chunks))

fetch_users_all(user_ids) == db_users

fetch_users_by_ids(user_ids) ==
  IF user_ids = <<>> THEN <<>>
  ELSE FetchChunks(db_users, "user_id", chunked(user_ids, ID_CHUNK))

(* a or b or c or d or e: the first operand that is neither None nor 0,    *)
(* else the last one.  The operands are optional numbers.                  *)
RECURSIVE FirstTruthy(_)
FirstTruthy(vals) ==
  IF Len(vals) = 1 \/ (Head(vals) # Nothing /\ Head(vals) # Some(0))
  THEN Head(vals)
  ELSE FirstTruthy(Tail(vals))

(* max(0.0, min(100.0, ts)) *)
ClampTs(ts) == Max(0, Min(100, ts))

(* the columns the members table has; a lookup by another column raises *)
MembersColumns == {"user_id", "ts", "trust_score", "ts_score", "trust"}

(* the body of the for loop over resp.data, lines 371-382 *)
RECURSIVE MembersRowsToMap(_, _, _)
MembersRowsToMap(rows, id_col, ts_map) ==
  IF rows = <<>> THEN ts_map
  ELSE LET row == Head(rows)
           uid == row[id_col]
           ts == FirstTruthy(<<row.ts, row.trust_score, row.ts_score,
                               row.trust, Some(DEFAULT_TS)>>)[1]
       IN MembersRowsToMap(
            Tail(rows), id_col,
            IF uid = 0 THEN ts_map
            ELSE [x \in DOMAIN ts_map \cup {uid} |->
                    IF x = uid THEN ClampTs(ts) ELSE ts_map[x]])

(* the requests of one candidate, lines 364-382: chunk k of the lookup by  *)
(* id_col raises if the table has no such column or the request is one of  *)
(* failing; the entries of the chunks before it stay in ts_map             *)
RECURSIVE CandidateLookup(_, _, _, _, _)
CandidateLookup(id_col, chunks, k, ts_map, failing) ==
  IF chunks = <<>> THEN [ts_map |-> ts_map, raised |-> FALSE]
  ELSE IF id_col \notin MembersColumns \/ <<id_col, k>> \in failing
       THEN [ts_map |-> ts_map, raised |-> TRUE]
       ELSE CandidateLookup(
              id_col, Tail(chunks), k + 1,
              MembersRowsToMap(RowsIn(db_members, id_col, Head(chunks)),
                               id_col, ts_map),
              failing)

(* the loop over id_candidates, lines 362-387: ts_map is the one dict of   *)
(* the whole call; it is returned after the first candidate that ends      *)
(* without an exception and leaves it non-empty                            *)
RECURSIVE MembersByCandidates(_, _, _, _)
MembersByCandidates(candidates, user_ids, ts_map, failing) ==
  IF candidates = <<>> THEN ts_map
  ELSE LET got == CandidateLookup(Head(candidates),
                                  chunked(user_ids, ID_CHUNK), 1, ts_map,
                                  failing)
       IN IF ~got.raised /\ DOMAIN got.ts_map # {} THEN got.ts_map
          ELSE MembersByCandidates(Tail(candidates), user_ids, got.ts_map,
                                   failing)

(* id_candidates, line 360 *)
id_candidates == <<"user_id", "member_id", "discord_user_id", "id">>

(* fetch_members_ts_by_ids while the requests in failing raise *)
FetchMembersTsByIds(user_ids, failing) ==
  IF user_ids = <<>> THEN <<>>
  ELSE MembersByCandidates(id_candidates, user_ids, <<>>, failing)

(* every lookup raises: each candidate is skipped (except Exception:     *)
(* continue) and the empty map is returned                                 *)
MembersAllRaise(user_ids) == <<>>

(* lines 357-387, every request answered *)
fetch_members_ts_by_ids(user_ids) == FetchMembersTsByIds(user_ids, {})

(***************************************************************************)
(* build_core_model: the aggregates                                        *)
(***************************************************************************)
(* f"user-{uid}" *)
SyntheticUserName(uid) == <<"u","s","e","r","-">> \o IntToStr(uid)

StartsWith(s, prefix) ==
  Len(s) >= Len(prefix) /\ SubSeq(s, 1, Len(prefix)) = prefix

HasUser(stats, uid) == \E i \in DOMAIN stats : stats[i].user_id = uid
UserIdx(stats, uid) == CHOOSE i \in DOMAIN stats : stats[i].user_id = uid

NewUser(uid, username, ts_map) ==
  [user_id |-> uid,
   username |-> IF username # Nothing THEN username ELSE SyntheticUserName(uid),
   ts |-> Get(ts_map, uid, DEFAULT_TS),
   raw_cp_total |-> 0, raw_cp_30d |-> 0,
   msg_count_total |-> 0, msg_count_30d |-> 0,
   reaction_given_total |-> 0, reaction_given_30d |-> 0,
   category_counts |-> [c \in Categories |-> 0],
   category_cp |-> [c \in Categories |-> 0],
   category_cp_30d |-> [c \in Categories |-> 0],
   daily_cp |-> <<>>,
   activity_days |-> {},
   rank_30d |-> 0, rank_total |-> 0,
   effective_cp_total |-> 0, effective_cp_30d |-> 0,
   vp |-> 0, effective_vp |-> 0,
   current_streak |-> 0, longest_streak |-> 0]

(* ensure_user(uid, username): the dict afterwards.  The keys that the     *)
(* derivation adds later (effective_cp_total, ..., longest_streak) are 0   *)
(* until then.                                                             *)
ensure_user(stats, uid, username, ts_map) ==
  IF ~HasUser(stats, uid) THEN Append(stats, NewUser(uid, username, ts_map))
  ELSE LET i == UserIdx(stats, uid)
       IN IF username # Nothing
             /\ StartsWith(stats[i].username, <<"u","s","e","r","-">>)
          THEN [stats EXCEPT ![i].username = username]
          ELSE stats

(* the loop of lines 521-525 *)
RECURSIVE SeedUsersFrom(_, _, _)
SeedUsersFrom(rows, stats, ts_map) ==
  IF rows = <<>> THEN stats
  ELSE LET uid == Head(rows).user_id
       IN SeedUsersFrom(
            Tail(rows),
            IF uid = 0 THEN stats
            ELSE ensure_user(stats, uid,
                             IF Head(rows).username # Nothing
                             THEN Head(rows).username
                             ELSE SyntheticUserName(uid),
                             ts_map),
            ts_map)

(* channel_name_by_id, lines 489-492 *)
RECURSIVE ChannelNames(_, _)
ChannelNames(rows, names) ==
  IF rows = <<>> THEN names
  ELSE LET cid == Head(rows).channel_id
       IN ChannelNames(
            Tail(rows),
            [x \in DOMAIN names \cup {cid} |->
               IF x = cid THEN normalize_channel_name(Head(rows).name, cid)
               ELSE names[x]])

channel_name_by_id == ChannelNames(channels, <<>>)

(* channel_name_by_id.get(channel_id, f"channel-{channel_id}") *)
ChannelNameOf(channel_id) ==
  Get(channel_name_by_id, channel_id, SyntheticChannelName(channel_id))

(* raw_cp = base_cp * weight, in tenths *)
MessageRawCp(category, weight) == CATEGORY_CP[category] * weight

(* day >= day_30_ago *)
InLast30Days(day) == day >= day_30_ago

UserAfterMessage_uncounted(u, category, raw_cp, day) ==
  [u EXCEPT !.raw_cp_total = @ + raw_cp,
            !.category_counts[category] = @ + 1,
            !.category_cp[category] = @ + raw_cp]

(* lines 556-566: the author's entry after one message *)
UserAfterMessage(u, category, raw_cp, day) ==
  LET in30 == InLast30Days(day)
  IN [u EXCEPT
        !.raw_cp_total = @ + raw_cp,
        !.msg_count_total = @ + 1,
        !.category_counts[category] = @ + 1,
        !.category_cp[category] = @ + raw_cp,
        !.daily_cp = AddAt(@, day, raw_cp, 0),
        !.activity_days = @ \cup {day},
        !.raw_cp_30d = IF in30 THEN @ + raw_cp ELSE @,
        !.msg_count_30d = IF in30 THEN @ + 1 ELSE @,
        !.category_cp_30d[category] = IF in30 THEN @ + raw_cp ELSE @]

UserAfterReaction_always_30d(u, raw_cp, day) ==
  [u EXCEPT !.raw_cp_total = @ + raw_cp,
            !.reaction_given_total = @ + 1,
            !.daily_cp = AddAt(@, day, raw_cp, 0),
            !.activity_days = @ \cup {day},
            !.raw_cp_30d = @ + raw_cp,
            !.reaction_given_30d = @ + 1]

(* lines 612-618: the reactor's entry after one reaction *)
UserAfterReaction(u, raw_cp, day) ==
  LET in30 == InLast30Days(day)
  IN [u EXCEPT
        !.raw_cp_total = @ + raw_cp,
        !.reaction_given_total = @ + 1,
        !.daily_cp = AddAt(@, day, raw_cp, 0),
        !.activity_days = @ \cup {day},
        !.raw_cp_30d = IF in30 THEN @ + raw_cp ELSE @,
        !.reaction_given_30d = IF in30 THEN @ + 1 ELSE @]

HasChannel(stats, channel_id) ==
  \E i \in DOMAIN stats : stats[i].channel_id = channel_id
ChannelIdx(stats, channel_id) ==
  CHOOSE i \in DOMAIN stats : stats[i].channel_id = channel_id

(* lines 584-596 *)
ChannelStatsAfter(stats, channel_id, channel_name, weight, raw_cp, uid, day) ==
  LET with == IF HasChannel(stats, channel_id) THEN stats
              ELSE Append(stats, [channel_id |-> channel_id,
                                  channel_name |-> channel_name,
                                  weight |-> weight,
                                  messages_30d |-> 0,
                                  raw_cp_30d |-> 0,
                                  active_users_30d |-> {}])
      i == ChannelIdx(with, channel_id)
  IN IF InLast30Days(day)
     THEN [with EXCEPT ![i].messages_30d = @ + 1,
                       ![i].raw_cp_30d = @ + raw_cp,
                       ![i].active_users_30d = @ \cup {uid}]
     ELSE with

(* d[uid] += v on a dict kept in insertion order: a tuple of <<key, value>> *)
AddOrdered(items, key, v) ==
  IF \E i \in DOMAIN items : items[i][1] = key
  THEN [i \in DOMAIN items |->
          IF items[i][1] = key THEN <<key, items[i][2] + v>> ELSE items[i]]
  ELSE Append(items, <<key, v>>)

(* channel_user_cp[channel_id][uid] += raw_cp, line 597 *)
ChannelUserCpAfter(cucp, channel_id, uid, raw_cp, day) ==
  IF InLast30Days(day)
  THEN [x \in DOMAIN cucp \cup {channel_id} |->
          IF x = channel_id THEN AddOrdered(Get(cucp, channel_id, <<>>), uid, raw_cp)
          ELSE cucp[x]]
  ELSE cucp

IsSelfOrUnknown_unknown_only(target_id, reactor_id) == target_id = 0

IsSelfOrUnknown_self_only(target_id, reactor_id) == target_id = reactor_id

(* not (target_id and target_id != reactor_id), line 625; a target_id of   *)
(* None is counted as 0, which the test treats alike                       *)
IsSelfOrUnknown(target_id, reactor_id) ==
  target_id = 0 \/ target_id = reactor_id

(* lines 624-626 *)
EdgeWeightsAfter(edges, owner, reactor_id, message_id) ==
  LET target_id == Get(owner, message_id, 0)
  IN IF IsSelfOrUnknown(target_id, reactor_id) THEN edges
     ELSE AddOrdered(edges, <<reactor_id, target_id>>, 10)

(***************************************************************************)
(* build_core_model: derivation                                            *)
(***************************************************************************)
EffectiveCp_unscaled(raw_cp, ts) == raw_cp * ts * 100

(* raw_cp * (ts / 100.0): raw_cp in tenths, the result in thousandths *)
EffectiveCp(raw_cp, ts) == raw_cp * ts

(* sorted(days) *)
RECURSIVE SortedDays(_)
SortedDays(S) ==
  IF S = {} THEN <<>>
  ELSE LET m == CHOOSE d \in S : \A e \in S : d <= e
       IN <<m>> \o SortedDays(S \ {m})

(* the loop of lines 641-648 over days[i], i = 1..len(days)-1 *)
RECURSIVE LongestRun(_, _, _, _)
LongestRun(days, i, run, longest) ==
  IF i > Len(days) THEN longest
  ELSE LET r == IF days[i] = days[i - 1] + 1 THEN run + 1 ELSE 1
       IN LongestRun(days, i + 1, r, Max(longest, r))

LongestStreak(activity_days) ==
  LET days == SortedDays(activity_days)
  IN IF days = <<>> THEN 0 ELSE LongestRun(days, 2, 1, 1)

(* the while loop of lines 651-657 *)
RECURSIVE StreakFrom(_, _)
StreakFrom(day_set, day) ==
  IF day \in day_set THEN 1 + StreakFrom(day_set, day - 1) ELSE 0

CurrentStreak_from_last_day(activity_days, today) ==
  IF activity_days = {} THEN 0
  ELSE StreakFrom(activity_days,
                  CHOOSE d \in activity_days : \A e \in activity_days : e <= d)

CurrentStreak(activity_days, today) ==
  IF activity_days = {} THEN 0 ELSE StreakFrom(activity_days, today)

(* the body of the loop of lines 628-657 *)
DeriveUser(u) ==
  LET ts == ClampTs(u.ts)
      eff == EffectiveCp(u.raw_cp_total, ts)
      vp == calc_vp(eff)
  IN [u EXCEPT
        !.ts = ts,
        !.effective_cp_total = eff,
        !.effective_cp_30d = EffectiveCp(u.raw_cp_30d, ts),
        !.vp = vp,
        !.effective_vp = Max(1, (vp * ts) \div 100),
        !.current_streak = CurrentStreak(u.activity_days, DateOf(now)),
        !.longest_streak = LongestStreak(u.activity_days)]

(***************************************************************************)
(* build_core_model: ranking and views                                     *)
(***************************************************************************)
KeyLess_ascending(a, b) == a[1] > b[1] \/ (a[1] = b[1] /\ a[2] > b[2])

(* tuple comparison a < b of two (effective, raw) keys *)
KeyLess(a, b) == a[1] < b[1] \/ (a[1] = b[1] /\ a[2] < b[2])

(* sorted(items, key=..., reverse=True): stable, so items with equal keys  *)
(* keep their order.  items are <<key, value>> pairs.                      *)
RECURSIVE InsertDesc(_, _)
InsertDesc(sorted, item) ==
  IF sorted = <<>> THEN <<item>>
  ELSE IF KeyLess(Head(sorted)[1], item[1])
       THEN <<item>> \o sorted
       ELSE <<Head(sorted)>> \o InsertDesc(Tail(sorted), item)

RECURSIVE SortedDesc(_, _)
SortedDesc(items, acc) ==
  IF items = <<>> THEN acc
  ELSE SortedDesc(Tail(items), InsertDesc(acc, Head(items)))

(* sorted(user_stats.values(), key=(effective, raw), reverse=True), as the  *)
(* tuple of user ids                                                       *)
Ranked(stats, eff_field, raw_field) ==
  LET items == [i \in DOMAIN stats |->
                  << <<stats[i][eff_field], stats[i][raw_field]>>,
                     stats[i].user_id >>]
      sorted == SortedDesc(items, <<>>)
  IN [i \in DOMAIN sorted |-> sorted[i][2]]

(* position of uid in a ranking, from 1 *)
RankOf(ranked, uid) == CHOOSE i \in DOMAIN ranked : ranked[i] = uid

(* sorted(pairs, key=lambda kv: kv[1], reverse=True) *)
SortedByValueDesc(pairs) ==
  LET items == [i \in DOMAIN pairs |-> << <<pairs[i][2], 0>>, pairs[i] >>]
      sorted == SortedDesc(items, <<>>)
  IN [i \in DOMAIN sorted |-> sorted[i][2]]

(* one row of channel_rows, lines 671-688 *)
ChannelRow(row, cucp, stats) ==
  LET leaders == SortedByValueDesc(Get(cucp, row.channel_id, <<>>))
      champ_user_id == IF leaders # <<>> THEN leaders[1][1] ELSE 0
  IN [channel_id |-> row.channel_id,
      channel_name |-> row.channel_name,
      weight |-> row.weight,
      messages_30d |-> row.messages_30d,
      raw_cp_30d |-> row.raw_cp_30d,
      active_users_30d |-> Cardinality(row.active_users_30d),
      champ_user_id |-> champ_user_id,
      champ_name |-> IF HasUser(stats, champ_user_id)
                     THEN stats[UserIdx(stats, champ_user_id)].username
                     ELSE <<"-">>,
      champ_cp_30d |-> IF leaders # <<>> THEN leaders[1][2] ELSE 0]

(* channel_rows, sorted by raw_cp_30d, line 689 *)
ChannelRows(cstats, cucp, stats) ==
  LET rows == [i \in DOMAIN cstats |-> ChannelRow(cstats[i], cucp, stats)]
      items == [i \in DOMAIN rows |-> << <<rows[i].raw_cp_30d, 0>>, rows[i] >>]
      sorted == SortedDesc(items, <<>>)
  IN [i \in DOMAIN sorted |-> sorted[i][2]]

(* node_degree, lines 692-695 *)
RECURSIVE NodeDegree(_, _)
NodeDegree(edges, degree) ==
  IF edges = <<>> THEN degree
  ELSE LET e == Head(edges)
       IN NodeDegree(Tail(edges),
                     AddOrdered(AddOrdered(degree, e[1][1], e[2]), e[1][2], e[2]))

(***************************************************************************)
(* build_core_model: the steps                                             *)
(***************************************************************************)
(* the ingestion bot is not part of a dashboard run: its store is empty    *)
(* and none of its coroutines exists                                       *)
BotStopped ==
  /\ storage_backend = "supabase"
  /\ users_table = <<>>
  /\ messages_table = <<>>
  /\ reactions_table = {}
  /\ nlp_task_queue = <<>>
  /\ tasks = <<>>
  /\ nlp_worker = Nothing
  /\ memory_lock = 0
  /\ events = <<>>
  /\ credited = <<>>
  /\ users_at_start = <<>>

(* the dashboard's variables at a program point before any request was    *)
(* made                                                                    *)
InitDashboard(phase, pending, f, dm, dr, members, c, t) ==
  /\ pc = phase
  /\ cfg = c
  /\ now = t
  /\ db_messages = dm
  /\ db_reactions = dr
  /\ db_members = members
  /\ fetch = f
  /\ messages = <<>>
  /\ reactions = <<>>
  /\ channels = <<>>
  /\ seen_user_ids = <<>>
  /\ users = <<>>
  /\ member_ts_by_user = <<>>
  /\ user_stats = <<>>
  /\ message_owner = <<>>
  /\ channel_stats = <<>>
  /\ channel_user_cp = <<>>
  /\ category_totals =
       [c2 \in Categories |-> [count |-> 0, raw_cp |-> 0, raw_cp_30d |-> 0]]
  /\ daily_total_cp = <<>>
  /\ daily_total_messages = <<>>
  /\ daily_active_users = <<>>
  /\ heatmap_messages = <<>>
  /\ heatmap_cp = <<>>
  /\ edge_weights = <<>>
  /\ cursor = 1
  /\ ranked_30d = <<>>
  /\ ranked_total = <<>>
  /\ model = Nothing
  /\ call = pending
  /\ faults = {}
  /\ exc = Nothing
  /\ cache = Nothing
  /\ last_error = Nothing
  /\ refreshes = 0
  /\ cached_from = Nothing

(* every variable at a program point before any request was made *)
InitState(phase, pending, f, dm, dr, members, c, t) ==
  /\ InitDashboard(phase, pending, f, dm, dr, members, c, t)
  /\ BotStopped

(* the state at the call of build_core_model, before its first request *)
InitBuild(dm, dr, members, c, t) ==
  InitState("fetch_messages", Nothing,
            FetchStart(c.max_messages, DEFAULT_CHUNK_SIZE), dm, dr, members,
            c, t)

Raise_silent(table) ==
  /\ exc' = Nothing
  /\ pc' = "raised"

(* an exception of a request on table leaves build_core_model: nothing in  *)
(* lines 445-460 and 482 catches it                                        *)
Raise(table) ==
  /\ exc' = Some(table)
  /\ pc' = "raised"

(* lines 445-452: one page request of fetch_rows_window("messages", ...) *)
FetchMessages ==
  /\ pc = "fetch_messages"
  /\ IF "messages" \in faults
     THEN Raise("messages") /\ UNCHANGED <<messages, fetch>>
     ELSE /\ LET f == FetchPage(fetch, db_messages, "timestamp", since_dt)
             IN IF FetchDone(f)
                THEN /\ messages' = f.rows
                     /\ fetch' = FetchStart(cfg.max_reactions, DEFAULT_CHUNK_SIZE)
                     /\ pc' = "fetch_reactions"
                ELSE /\ fetch' = f
                     /\ UNCHANGED <<messages, pc>>
          /\ UNCHANGED exc
  /\ UNCHANGED <<cfgVars, dbVars, reactions, channels, refVars, user_stats,
                 aggVars, edge_weights, cursor, ranked_30d, ranked_total,
                 model, call, faults, tuiVars, botVars>>

(* lines 453-460: one page request of fetch_rows_window("reactions", ...) *)
FetchReactions ==
  /\ pc = "fetch_reactions"
  /\ IF "reactions" \in faults
     THEN Raise("reactions") /\ UNCHANGED <<reactions, fetch>>
     ELSE /\ LET f == FetchPage(fetch, db_reactions, "created_at", since_dt)
             IN IF FetchDone(f)
                THEN /\ reactions' = f.rows
                     /\ fetch' = f
                     /\ pc' = "fetch_channels"
                ELSE /\ fetch' = f
                     /\ UNCHANGED <<reactions, pc>>
          /\ UNCHANGED exc
  /\ UNCHANGED <<cfgVars, dbVars, messages, channels, refVars, user_stats,
                 aggVars, edge_weights, cursor, ranked_30d, ranked_total,
                 model, call, faults, tuiVars, botVars>>

(* try_fetch_all_rows(client, table, columns): the rows and no error, or  *)
(* no rows and the error text                                              *)
try_fetch_all_rows(table, rows) ==
  IF table \in faults THEN <<(<<>>), Some(table)>> ELSE <<rows, Nothing>>

(* line 461: channels, _ = try_fetch_all_rows(...); the error is dropped *)
TryFetchChannels ==
  /\ pc = "fetch_channels"
  /\ channels' = try_fetch_all_rows("channels", db_channels)[1]
  /\ pc' = "seen_users"
  /\ UNCHANGED <<cfgVars, dbVars, fetch, messages, reactions, refVars,
                 user_stats, aggVars, edge_weights, cursor, ranked_30d,
                 ranked_total, model, call,
                 faultVars, tuiVars, botVars>>

(* lines 463-475 *)
CollectSeenUsers ==
  /\ pc = "seen_users"
  /\ seen_user_ids' = SeenUsers(reactions, SeenUsers(messages, <<>>))
  /\ pc' = "truncate"
  /\ UNCHANGED <<cfgVars, dbVars, fetch, fetchedVars, users,
                 member_ts_by_user, user_stats, aggVars, edge_weights, cursor,
                 ranked_30d, ranked_total, model, call,
                 faultVars, tuiVars, botVars>>

KeepRows_all(rows, keep) == rows

(* [r for r in rows if as_int(r.get("user_id")) in keep] *)
KeepRows(rows, keep) == SelectSeq(rows, LAMBDA r : r.user_id \in keep)

(* lines 477-481 *)
TruncateUsers ==
  /\ pc = "truncate"
  /\ IF cfg.max_users > 0 /\ Len(seen_user_ids) > cfg.max_users
     THEN LET keep == Range(Take(seen_user_ids, cfg.max_users))
          IN /\ messages' = KeepRows(messages, keep)
             /\ reactions' = KeepRows(reactions, keep)
             /\ seen_user_ids' = Take(seen_user_ids, cfg.max_users)
     ELSE UNCHANGED <<messages, reactions, seen_user_ids>>
  /\ pc' = "fetch_users"
  /\ UNCHANGED <<cfgVars, dbVars, fetch, channels, users, member_ts_by_user,
                 user_stats, aggVars, edge_weights, cursor, ranked_30d,
                 ranked_total, model, call,
                 faultVars, tuiVars, botVars>>

(* line 482 *)
FetchUsers ==
  /\ pc = "fetch_users"
  /\ IF "users" \in faults /\ seen_user_ids # <<>>
     THEN Raise("users") /\ UNCHANGED users
     ELSE /\ users' = fetch_users_by_ids(seen_user_ids)
          /\ pc' = "fetch_members"
          /\ UNCHANGED exc
  /\ UNCHANGED <<cfgVars, dbVars, fetch, fetchedVars, seen_user_ids,
                 member_ts_by_user, user_stats, aggVars, edge_weights, cursor,
                 ranked_30d, ranked_total, model, call, faults, tuiVars, botVars>>

(* line 483 *)
FetchMembersTs ==
  /\ pc = "fetch_members"
  /\ member_ts_by_user' =
       IF "members" \in faults
       THEN MembersAllRaise(seen_user_ids)
       ELSE fetch_members_ts_by_ids(seen_user_ids)
  /\ pc' = "seed_users"
  /\ UNCHANGED <<cfgVars, dbVars, fetch, fetchedVars, seen_user_ids, users,
                 user_stats, aggVars, edge_weights, cursor, ranked_30d,
                 ranked_total, model, call,
                 faultVars, tuiVars, botVars>>

(* the loop that follows a finished one *)
PhaseFrom(phase) ==
  IF phase = "fold_messages" /\ messages # <<>> THEN "fold_messages"
  ELSE IF phase \in {"fold_messages", "fold_reactions"} /\ reactions # <<>>
  THEN "fold_reactions"
  ELSE "derive"

(* lines 494-537 *)
SeedUsers ==
  /\ pc = "seed_users"
  /\ user_stats' = SeedUsersFrom(users, <<>>, member_ts_by_user)
  /\ cursor' = 1
  /\ pc' = PhaseFrom("fold_messages")
  /\ UNCHANGED <<cfgVars, dbVars, fetch, fetchedVars, refVars, aggVars,
                 edge_weights, ranked_30d, ranked_total, model, call,
                 faultVars, tuiVars, botVars>>

(* lines 539-597: one pass of the loop over messages.  Every fetched row   *)
(* passed the timestamp filter, so its timestamp parses.                   *)
FoldMessage ==
  /\ pc = "fold_messages"
  /\ cursor <= Len(messages)
  /\ LET message == messages[cursor]
         uid == message.user_id
         mid == message.message_id
         channel_id == message.channel_id
         stats == ensure_user(user_stats, uid, Nothing, member_ts_by_user)
         ts == message.timestamp
         day == DateOf(ts)
         channel_name == ChannelNameOf(channel_id)
         category == classify_message(message.content, channel_name)
         weight == channel_weight(channel_name)
         raw_cp == MessageRawCp(category, weight)
         key == <<WeekdayOf(ts), HourOf(ts)>>
         i == UserIdx(stats, uid)
     IN IF uid = 0 \/ mid = 0
        THEN UNCHANGED <<user_stats, aggVars>>
        ELSE /\ user_stats' =
                  [stats EXCEPT ![i] = UserAfterMessage(@, category, raw_cp, day)]
             /\ category_totals' =
                  [category_totals EXCEPT
                     ![category].count = @ + 1,
                     ![category].raw_cp = @ + raw_cp,
                     ![category].raw_cp_30d =
                        IF InLast30Days(day) THEN @ + raw_cp ELSE @]
             /\ IF day >= trend_start
                THEN /\ daily_total_cp' = AddAt(daily_total_cp, day, raw_cp, 0)
                     /\ daily_total_messages' = AddAt(daily_total_messages, day, 1, 0)
                     /\ daily_active_users' = AddTo(daily_active_users, day, uid)
                ELSE UNCHANGED <<daily_total_cp, daily_total_messages,
                                 daily_active_users>>
             /\ heatmap_messages' = AddAt(heatmap_messages, key, 1, 0)
             /\ heatmap_cp' = AddAt(heatmap_cp, key, raw_cp, 0)
             /\ message_owner' =
                  [x \in DOMAIN message_owner \cup {mid} |->
                     IF x = mid THEN uid ELSE message_owner[x]]
             /\ channel_stats' =
                  ChannelStatsAfter(channel_stats, channel_id, channel_name,
                                    weight, raw_cp, uid, day)
             /\ channel_user_cp' =
                  ChannelUserCpAfter(channel_user_cp, channel_id, uid, raw_cp, day)
  /\ cursor' = IF cursor < Len(messages) THEN cursor + 1 ELSE 1
  /\ pc' = IF cursor < Len(messages) THEN pc ELSE PhaseFrom("fold_reactions")
  /\ UNCHANGED <<cfgVars, dbVars, fetch, fetchedVars, refVars, edge_weights,
                 ranked_30d, ranked_total, model, call,
                 faultVars, tuiVars, botVars>>

(* lines 600-626: one pass of the loop over reactions *)
FoldReaction ==
  /\ pc = "fold_reactions"
  /\ cursor <= Len(reactions)
  /\ LET reaction == reactions[cursor]
         reactor_id == reaction.user_id
         message_id == reaction.message_id
         stats == ensure_user(user_stats, reactor_id, Nothing, member_ts_by_user)
         ts == reaction.created_at
         day == DateOf(ts)
         raw_cp == REACTION_GIVE_CP
         i == UserIdx(stats, reactor_id)
     IN IF reactor_id = 0
        THEN UNCHANGED <<user_stats, daily_total_cp, daily_active_users,
                         edge_weights>>
        ELSE /\ user_stats' =
                  [stats EXCEPT ![i] = UserAfterReaction(@, raw_cp, day)]
             /\ IF day >= trend_start
                THEN /\ daily_total_cp' = AddAt(daily_total_cp, day, raw_cp, 0)
                     /\ daily_active_users' =
                          AddTo(daily_active_users, day, reactor_id)
                ELSE UNCHANGED <<daily_total_cp, daily_active_users>>
             /\ edge_weights' =
                  EdgeWeightsAfter(edge_weights, message_owner, reactor_id,
                                   message_id)
  /\ cursor' = IF cursor < Len(reactions) THEN cursor + 1 ELSE 1
  /\ pc' = IF cursor < Len(reactions) THEN pc ELSE "derive"
  /\ UNCHANGED <<cfgVars, dbVars, fetch, fetchedVars, refVars, message_owner,
                 channel_stats, channel_user_cp, category_totals,
                 daily_total_messages, heatmap_messages, heatmap_cp,
                 ranked_30d, ranked_total, model, call,
                 faultVars, tuiVars, botVars>>

(* lines 628-657 *)
DeriveUsers ==
  /\ pc = "derive"
  /\ user_stats' = [i \in DOMAIN user_stats |-> DeriveUser(user_stats[i])]
  /\ pc' = "rank"
  /\ UNCHANGED <<cfgVars, dbVars, fetch, fetchedVars, refVars, aggVars,
                 edge_weights, cursor, ranked_30d, ranked_total, model, call,
                 faultVars, tuiVars, botVars>>

(* lines 659-668 *)
RankUsers ==
  /\ pc = "rank"
  /\ LET r30 == Ranked(user_stats, "effective_cp_30d", "raw_cp_30d")
         rtotal == Ranked(user_stats, "effective_cp_total", "raw_cp_total")
     IN /\ ranked_30d' = r30
        /\ ranked_total' = rtotal
        /\ user_stats' =
             [i \in DOMAIN user_stats |->
                [user_stats[i] EXCEPT
                   !.rank_30d = RankOf(r30, user_stats[i].user_id),
                   !.rank_total = RankOf(rtotal, user_stats[i].user_id)]]
  /\ pc' = "views"
  /\ UNCHANGED <<cfgVars, dbVars, fetch, fetchedVars, refVars, aggVars,
                 edge_weights, cursor, model, call,
                 faultVars, tuiVars, botVars>>

(* lines 670-733: the views, and the dict returned *)
BuildViews ==
  /\ pc = "views"
  /\ LET top_edges == SortedByValueDesc(edge_weights)
     IN model' =
          [generated_at |-> now,
           scan_days |-> scan_days,
           scan_since |-> since_dt,
           users_count |-> Len(user_stats),
           messages_count |-> Len(messages),
           reactions_count |-> Len(reactions),
           channel_rows |-> ChannelRows(channel_stats, channel_user_cp, user_stats),
           top_edges |-> top_edges,
           top_nodes |-> SortedByValueDesc(NodeDegree(top_edges, <<>>)),
           day_7_ago |-> day_7_ago,
           day_30_ago |-> day_30_ago]
  /\ pc' = "done"
  /\ UNCHANGED <<cfgVars, dbVars, fetch, fetchedVars, refVars, user_stats,
                 aggVars, edge_weights, cursor, ranked_30d, ranked_total, call,
                 faultVars, tuiVars, botVars>>

Next ==
  \/ FetchMessages
  \/ FetchReactions
  \/ TryFetchChannels
  \/ CollectSeenUsers
  \/ TruncateUsers
  \/ FetchUsers
  \/ FetchMembersTs
  \/ SeedUsers
  \/ FoldMessage
  \/ FoldReaction
  \/ DeriveUsers
  \/ RankUsers
  \/ BuildViews

(***************************************************************************)
(* Inputs                                                                  *)
(***************************************************************************)
(* the clock reading of the build: day 1000 at 12:00 *)
Now == 1000 * 24 + 12

(* parse_args' defaults *)
DefaultCfg ==
  [trend_days |-> 14, lookback_days |-> 90, max_messages |-> 50000,
   max_reactions |-> 50000, max_users |-> 5000]

(* "hello world" *)
TextPlain == <<[k |-> "w", n |-> 5], [k |-> "s", n |-> 1], [k |-> "w", n |-> 5]>>
(* "check https://example.com" *)
TextUrl ==
  <<[k |-> "w", n |-> 5], [k |-> "s", n |-> 1], [k |-> "https", n |-> 1],
    [k |-> "w", n |-> 7], [k |-> "p", n |-> 1], [k |-> "w", n |-> 3]>>
(* "k" *)
TextShort == <<[k |-> "w", n |-> 1]>>
(* a plain sentence of 250 characters *)
TextLong == <<[k |-> "w", n |-> 200], [k |-> "s", n |-> 1], [k |-> "w", n |-> 49]>>
(* "   " *)
TextSpaces == <<[k |-> "s", n |-> 3]>>

Msg(id, uid, channel_id, content, ts) ==
  [message_id |-> id, user_id |-> uid, channel_id |-> channel_id,
   content |-> content, timestamp |-> ts]

React(message_id, uid, ts, weight) ==
  [message_id |-> message_id, user_id |-> uid, created_at |-> ts,
   weight |-> weight]

Member(uid, ts, trust_score) ==
  [user_id |-> uid, ts |-> ts, trust_score |-> trust_score,
   ts_score |-> Nothing, trust |-> Nothing]

(* the tables of n rows built from the choices in S, newest row first *)
NewestFirst(S, n) ==
  {f \in [1..n -> S] : \A i \in 1..(n - 1) : f[i].ts >= f[i + 1].ts}

(* Events: a few rows of several users, with a user cap and trust rows *)
MaxMsgs == 2
MaxReacts == 1
(* max_users: 0 disables the cap *)
UserCaps == {0, 1, 2}
AuthorIds == {1, 2}
ReactorIds == {0, 1, 3}
EventStamps == {Now, MinusDays(Now, 31)}
(* message ids are 1, 2, ... from the newest; 9 is a message not fetched *)
ReactionTargets == {1, 2, 9}

EventMessages ==
  UNION {
    {[i \in 1..n |-> Msg(i, f[i].uid, 6, TextPlain, f[i].ts)] :
       f \in NewestFirst([uid : AuthorIds, ts : EventStamps], n)}
    : n \in 0..MaxMsgs}

EventReactions ==
  UNION {
    {[i \in 1..n |-> React(f[i].target, f[i].uid, f[i].ts, 5)] :
       f \in NewestFirst([uid : ReactorIds, target : ReactionTargets,
                         ts : {Now}], n)}
    : n \in 0..MaxReacts}

MembersTables ==
  { <<Member(1, Some(-50), Nothing), Member(2, Some(150), Nothing)>>,
    <<Member(1, Some(40), Nothing), Member(2, Some(0), Nothing),
      Member(3, Nothing, Some(25))>> }

Init ==
  \E dm \in EventMessages, dr \in EventReactions, members \in MembersTables,
     cap \in UserCaps :
    InitBuild(dm, dr, members, [DefaultCfg EXCEPT !.max_users = cap], Now)

Spec == Init /\ [][Next]_vars

(***************************************************************************)
(* Properties                                                              *)
(***************************************************************************)
Built == pc = "done"
Derived == pc \in {"rank", "views", "done"}
UserIds == {user_stats[i].user_id : i \in DOMAIN user_stats}
StatsOf(uid) == user_stats[UserIdx(user_stats, uid)]

(* a >= b for pairs, lexicographically *)
LexGeq(a, b) == a[1] > b[1] \/ (a[1] = b[1] /\ a[2] >= b[2])

IsRanking(ranked, rank_field, eff_field, raw_field) ==
  LET N == Len(user_stats)
  IN /\ Len(ranked) = N
     /\ {user_stats[i][rank_field] : i \in 1..N} = 1..N
     /\ \A i \in 1..N : ranked[user_stats[i][rank_field]] = user_stats[i].user_id
     /\ \A i, j \in 1..N :
          i < j => LexGeq(<<StatsOf(ranked[i])[eff_field], StatsOf(ranked[i])[raw_field]>>,
                          <<StatsOf(ranked[j])[eff_field], StatsOf(ranked[j])[raw_field]>>)

(* C1: in a built model with N users, the 30-day and the all-time ranking  *)
(* each give the ranks 1..N, every rank to one user, and down either       *)
(* ranking (effective score, raw score) never increases.                   *)
C1_RanksTotalAndOrdered ==
  Built =>
    /\ IsRanking(ranked_30d, "rank_30d", "effective_cp_30d", "raw_cp_30d")
    /\ IsRanking(ranked_total, "rank_total", "effective_cp_total", "raw_cp_total")

(* three users, two of them with equal 30-day effective scores and         *)
(* different 30-day raw scores, so the tie-break decides                   *)
C1_Witness ==
  /\ Built
  /\ Len(user_stats) >= 3
  /\ \E i, j \in DOMAIN user_stats :
       /\ user_stats[i].effective_cp_30d = user_stats[j].effective_cp_30d
       /\ user_stats[i].raw_cp_30d > user_stats[j].raw_cp_30d
       /\ user_stats[i].rank_30d < user_stats[j].rank_30d
  /\ \E i, j \in DOMAIN user_stats :
       user_stats[i].effective_cp_total > user_stats[j].effective_cp_total

(* C4: for every user and both windows, 0 <= effective <= raw, whatever    *)
(* trust the store holds.  Effective scores are in thousandths, raw scores *)
(* in tenths.                                                              *)
C4_EffectiveWithinRaw ==
  /\ \A i \in DOMAIN user_stats :
       user_stats[i].raw_cp_total >= 0 /\ user_stats[i].raw_cp_30d >= 0
  /\ Derived =>
       \A i \in DOMAIN user_stats :
         /\ 0 <= user_stats[i].effective_cp_total
         /\ user_stats[i].effective_cp_total <= user_stats[i].raw_cp_total * 100
         /\ 0 <= user_stats[i].effective_cp_30d
         /\ user_stats[i].effective_cp_30d <= user_stats[i].raw_cp_30d * 100

StoredTs(uid) ==
  {db_members[k].ts[1] : k \in {m \in DOMAIN db_members :
      db_members[m].user_id = uid /\ db_members[m].ts # Nothing}}

(* a built model with a scoring user whose stored trust is above 100 and   *)
(* one whose stored trust is negative                                      *)
C4_Witness ==
  /\ Built
  /\ \E i \in DOMAIN user_stats :
       /\ user_stats[i].raw_cp_30d > 0
       /\ \E t \in StoredTs(user_stats[i].user_id) : t > 100
  /\ \E i \in DOMAIN user_stats :
       /\ user_stats[i].raw_cp_30d > 0
       /\ \E t \in StoredTs(user_stats[i].user_id) : t < 0

(* the reactions folded so far *)
FoldedReactions ==
  IF pc = "fold_reactions" THEN SubSeq(reactions, 1, cursor - 1)
  ELSE IF pc \in {"derive", "rank", "views", "done"} THEN reactions
  ELSE <<>>

(* the author of a fetched message, 0 when the message was not folded *)
AuthorOf(message_id) ==
  LET hits == {i \in DOMAIN messages :
                 messages[i].message_id = message_id /\ messages[i].user_id # 0}
  IN IF pc \in {"fold_reactions", "derive", "rank", "views", "done"} /\ hits # {}
     THEN messages[CHOOSE i \in hits : TRUE].user_id
     ELSE 0

IsSelfReaction(r) == r.user_id # 0 /\ AuthorOf(r.message_id) = r.user_id

(* C5: the graph never holds an edge from a user to the same user, and a   *)
(* reaction by the author of the reacted-on message adds to no edge: the   *)
(* edge weights sum to 1.0 for each folded reaction of another, known,     *)
(* author.                                                                 *)
C5_NoSelfEdge ==
  /\ \A i \in DOMAIN edge_weights : edge_weights[i][1][1] # edge_weights[i][1][2]
  /\ SumSeq([i \in DOMAIN edge_weights |-> edge_weights[i][2]])
       = 10 * Cardinality({k \in DOMAIN FoldedReactions :
                             /\ FoldedReactions[k].user_id # 0
                             /\ AuthorOf(FoldedReactions[k].message_id) # 0
                             /\ ~IsSelfReaction(FoldedReactions[k])})

(* a self-reaction has been folded *)
C5_Witness ==
  /\ Built
  /\ \E k \in DOMAIN FoldedReactions : IsSelfReaction(FoldedReactions[k])

(* the user ids of the fetched rows: messages first, then reactions *)
ObservedRows ==
  [i \in 1..(Len(db_messages) + Len(db_reactions)) |->
     IF i <= Len(db_messages) THEN db_messages[i].user_id
     ELSE db_reactions[i - Len(db_messages)].user_id]
ObservedIds == Range(ObservedRows) \ {0}
FirstSeenAt(uid) ==
  CHOOSE i \in DOMAIN ObservedRows :
    ObservedRows[i] = uid /\ \A j \in 1..(i - 1) : ObservedRows[j] # uid
(* the first n observed ids *)
FirstObserved(n) ==
  {u \in ObservedIds :
     Cardinality({v \in ObservedIds : FirstSeenAt(v) < FirstSeenAt(u)}) < n}

(* C7: when more distinct non-zero user ids are observed than the user cap *)
(* N > 0, the model tracks exactly the first N observed: the rows of any   *)
(* other user are dropped, and none of them is a stats_by_user key, in a   *)
(* ranking, an endpoint of a graph edge or a channel champion.  (Every row *)
(* of the store is in the scan window and under the row caps here.)        *)
C7_UserCap ==
  (Built /\ cfg.max_users > 0 /\ Cardinality(ObservedIds) > cfg.max_users) =>
    LET kept == FirstObserved(cfg.max_users)
    IN /\ Cardinality(kept) = cfg.max_users
       /\ UserIds = kept
       /\ Range(ranked_30d) = kept
       /\ Range(ranked_total) = kept
       /\ messages = SelectSeq(db_messages, LAMBDA r : r.user_id \in kept)
       /\ reactions = SelectSeq(db_reactions, LAMBDA r : r.user_id \in kept)
       /\ \A i \in DOMAIN edge_weights :
            edge_weights[i][1][1] \in kept /\ edge_weights[i][1][2] \in kept
       /\ \A i \in DOMAIN model.top_edges :
            model.top_edges[i][1][1] \in kept /\ model.top_edges[i][1][2] \in kept
       /\ \A i \in DOMAIN model.top_nodes : model.top_nodes[i][1] \in kept
       /\ \A i \in DOMAIN model.channel_rows :
            model.channel_rows[i].champ_user_id \in kept \cup {0}
       /\ model.users_count = cfg.max_users

(* a user over the cap wrote a message that a kept user reacted to *)
C7_Witness ==
  /\ Built
  /\ cfg.max_users > 0
  /\ Cardinality(ObservedIds) > cfg.max_users
  /\ \E i \in DOMAIN db_messages, k \in DOMAIN reactions :
       /\ db_messages[i].user_id \notin FirstObserved(cfg.max_users)
       /\ reactions[k].message_id = db_messages[i].message_id

(***************************************************************************)
(* Direct calls of the pure functions                                      *)
(***************************************************************************)
(* a call of fn with its arguments, before it returns *)
Call(fn, args) == [fn |-> fn, args |-> args, result |-> Nothing]

InitCall(pending, f, dm) ==
  InitState("call", pending, f, dm, <<>>, <<>>, DefaultCfg, Now)

(* fetch_rows_window's locals when it is not running *)
NoFetch == FetchStart(1, DEFAULT_CHUNK_SIZE)

Returned == pc = "returned"

(* calc_vp(effective_cp_total) returns *)
CallCalcVp ==
  /\ pc = "call"
  /\ call.fn = "calc_vp"
  /\ call' = [call EXCEPT !.result = Some(calc_vp(call.args[1]))]
  /\ pc' = "returned"
  /\ UNCHANGED <<cfgVars, dbVars, fetch, fetchedVars, refVars, user_stats,
                 aggVars, edge_weights, cursor, ranked_30d, ranked_total,
                 model,
                 faultVars, tuiVars, botVars>>

(* Voting power of every effective score from -1 to MaxEffective points,   *)
(* in steps of a thousandth                                                *)
MaxEffective == 70
InitVp ==
  \E e \in (-1000)..(MaxEffective * 1000) : InitCall(Call("calc_vp", <<e>>), NoFetch, <<>>)

NextVp == CallCalcVp

SpecVp == InitVp /\ [][NextVp]_vars

(* C3, as stated: at effective score 0 voting power is 1, at 31 it is 5,   *)
(* and from 32 on it is 6.                                                 *)
C3_ThresholdsAsStated ==
  (Returned /\ call.fn = "calc_vp") =>
    LET e == call.args[1]
        vp == call.result[1]
    IN /\ (e = 0 => vp = 1)
       /\ (e = 31000 => vp = 5)
       /\ (e >= 32000 => vp = 6)

(* C3, amended: at effective score 0 voting power is 1; voting power is 5  *)
(* for effective scores from 15 up to but not including 31; at 31 it       *)
(* becomes 6 and it is 6 for every larger effective score.                 *)
C3_Thresholds ==
  (Returned /\ call.fn = "calc_vp") =>
    LET e == call.args[1]
        vp == call.result[1]
    IN /\ (e = 0 => vp = 1)
       /\ (e >= 15000 /\ e < 31000 => vp = 5)
       /\ (e >= 31000 => vp = 6)

C3_Witness ==
  /\ Returned
  /\ call.fn = "calc_vp"
  /\ call.args[1] = 31000
  /\ call.result = Some(6)

(***************************************************************************)
(* Volume: two users posting up to MaxVolume links each in a project       *)
(* channel (6.0 points a message), user 2 reacting once                    *)
(***************************************************************************)
MaxVolume == 11

VolumeMessages(k1, k2) ==
  [i \in 1..(k1 + k2) |-> Msg(i, IF i <= k1 THEN 1 ELSE 2, 1, TextUrl, Now)]

InitVolume ==
  \E k1 \in 0..MaxVolume, k2 \in 0..MaxVolume, members \in MembersTables :
    InitBuild(VolumeMessages(k1, k2), <<React(1, 2, Now, 1)>>, members,
              DefaultCfg, Now)

SpecVolume == InitVolume /\ [][Next]_vars

(* C2: every user's voting power is an integer from 1 to 6, is 1 when the  *)
(* all-time effective score is zero or less, and a user whose effective    *)
(* score is at least another user's has at least that user's voting power. *)
C2_VotingPower ==
  Derived =>
    \A i \in 1..Len(user_stats) :
      LET u == user_stats[i]
      IN /\ u.vp \in 1..6
         /\ (u.effective_cp_total <= 0 => u.vp = 1)
         /\ \A j \in 1..Len(user_stats) :
              user_stats[j].effective_cp_total >= u.effective_cp_total
                => user_stats[j].vp >= u.vp

(* a user at the cap with more than 63 points beside a user whose trust of *)
(* 0 leaves a positive raw score without effect                            *)
C2_Witness ==
  /\ Built
  /\ \E i, j \in 1..Len(user_stats) :
       /\ user_stats[i].effective_cp_total >= 63000
       /\ user_stats[i].vp = 6
       /\ user_stats[j].raw_cp_total > 0
       /\ user_stats[j].effective_cp_total = 0
       /\ user_stats[j].vp = 1

(***************************************************************************)
(* Fetch: a messages table of A rows inside the scan window and B rows     *)
(* older than it, read by fetch_rows_window alone with several page sizes  *)
(* and by whole builds with max_messages as the cap                        *)
(***************************************************************************)
MaxAvail == 50
OlderRows == {0, 2}
FetchCaps == {1, 10, 60}
CallCaps == {1, 2, 10, 50, 60}
PageSizes == {1, 3, 10, DEFAULT_CHUNK_SIZE}
ScanCutoff == MinusDays(Now, 90)

(* row i is the i-th newest; the rows alternate between users 1 and 2 and  *)
(* carry distinct timestamps, one hour apart                               *)
WindowTable(a, b) ==
  [i \in 1..(a + b) |->
     Msg(i, 1 + (i % 2), 6, TextPlain,
         IF i <= a THEN Now - i ELSE ScanCutoff - (i - a))]

(* fetch_rows_window(client, table, columns, date_column, since_dt,        *)
(* max_rows, chunk_size): one page request, and the return after the last  *)
CallFetchRowsWindow ==
  /\ pc = "call"
  /\ call.fn = "fetch_rows_window"
  /\ LET f == FetchPage(fetch, db_messages, call.args[1], call.args[2])
     IN /\ fetch' = f
        /\ IF FetchDone(f)
           THEN /\ call' = [call EXCEPT !.result = Some(f.rows)]
                /\ pc' = "returned"
           ELSE UNCHANGED <<call, pc>>
  /\ UNCHANGED <<cfgVars, dbVars, fetchedVars, refVars, user_stats, aggVars,
                 edge_weights, cursor, ranked_30d, ranked_total, model,
                 faultVars, tuiVars, botVars>>

InitFetch ==
  \E a \in 0..MaxAvail, b \in OlderRows :
    \/ \E cap \in CallCaps, size \in PageSizes :
         InitCall(Call("fetch_rows_window",
                       <<"timestamp", ScanCutoff, cap, size>>),
                  FetchStart(cap, size), WindowTable(a, b))
    \/ \E cap \in FetchCaps :
         InitBuild(WindowTable(a, b), <<React(1, 2, Now, 1)>>, <<>>,
                   [DefaultCfg EXCEPT !.max_messages = cap], Now)

NextFetch ==
  \/ CallFetchRowsWindow
  \/ Next

SpecFetch == InitFetch /\ [][NextFetch]_vars

(* the rows of the messages table at or after the cutoff *)
Available(since) == {i \in 1..Len(db_messages) : db_messages[i].timestamp >= since}

(* rows is a list of n distinct rows of the table, all at or after the     *)
(* cutoff, in descending timestamp order, and no row left out is newer     *)
(* than a row of the list                                                  *)
IsNewest(rows, n, since) ==
  /\ Len(rows) = n
  /\ \A k \in 1..Len(rows) :
       \E i \in Available(since) : db_messages[i] = rows[k]
  /\ \A k \in 1..(Len(rows) - 1) : rows[k].timestamp > rows[k + 1].timestamp
  /\ \A i \in Available(since) :
       (\A k \in 1..Len(rows) : rows[k] # db_messages[i])
         => \A k \in 1..Len(rows) : rows[k].timestamp > db_messages[i].timestamp

(* the messages counted by the aggregates of a build *)
CountedByUsers == SumSeq([i \in 1..Len(user_stats) |-> user_stats[i].msg_count_total])
CountedByCategory == SumOver([c \in Categories |-> category_totals[c].count], Categories)
CountedByHeatmap == SumOver(heatmap_messages, DOMAIN heatmap_messages)

(* C6: with A rows at or after the cutoff in an unchanging store and a cap *)
(* C >= 1, fetch_rows_window returns min(C, A) rows, the newest ones in    *)
(* descending timestamp order, whatever the page size; a build with        *)
(* max_messages = C counts exactly these rows in its aggregates and        *)
(* records no other message.                                               *)
C6_FetchWindowCap ==
  /\ (Returned /\ call.fn = "fetch_rows_window" /\ call.args[3] >= 1) =>
       IsNewest(call.result[1],
                Min(call.args[3], Cardinality(Available(call.args[2]))),
                call.args[2])
  /\ (Built /\ cfg.max_messages >= 1 /\ Len(seen_user_ids) <= cfg.max_users) =>
       LET n == Min(cfg.max_messages, Cardinality(Available(since_dt)))
       IN /\ IsNewest(messages, n, since_dt)
          /\ model.messages_count = n
          /\ CountedByUsers = n
          /\ CountedByCategory = n
          /\ CountedByHeatmap = n
          /\ DOMAIN message_owner = {messages[k].message_id : k \in 1..n}

(* the example: a cap of 10 with 50 rows available *)
C6_Witness ==
  /\ Built
  /\ cfg.max_messages = 10
  /\ Cardinality(Available(since_dt)) = 50
  /\ Len(db_messages) > 50
  /\ [k \in 1..Len(messages) |-> messages[k].message_id] = [k \in 1..10 |-> k]
  /\ CountedByUsers = 10
  /\ 11 \notin DOMAIN message_owner

(***************************************************************************)
(* Classify: classify_message on every text of up to MaxPieces pieces, in  *)
(* channels with and without an operations hint                            *)
(***************************************************************************)
MaxPieces == 3
PieceCounts == {1, 4, 200}
Pieces == [k : PieceKinds, n : PieceCounts]
Texts == UNION {[1..len -> Pieces] : len \in 0..MaxPieces}
(* the name stored for a channel that has a row *)
StoredName(channel_id) ==
  (CHOOSE r \in Range(db_channels) : r.channel_id = channel_id).name
ClassifyChannels == {StoredName(id) : id \in {2, 5, 6, 8}}

(* classify_message(content, channel_name) returns *)
CallClassifyMessage ==
  /\ pc = "call"
  /\ call.fn = "classify_message"
  /\ call' = [call EXCEPT
                !.result = Some(classify_message(call.args[1], call.args[2]))]
  /\ pc' = "returned"
  /\ UNCHANGED <<cfgVars, dbVars, fetch, fetchedVars, refVars, user_stats,
                 aggVars, edge_weights, cursor, ranked_30d, ranked_total,
                 model,
                 faultVars, tuiVars, botVars>>

InitClassify ==
  \E content \in Texts, channel_name \in ClassifyChannels :
    InitCall(Call("classify_message", <<content, channel_name>>), NoFetch, <<>>)

NextClassify == CallClassifyMessage

SpecClassify == InitClassify /\ [][NextClassify]_vars

(* what the rules of C8 ask of a text and of a channel name *)
IsWhitespaceOnly(content) == \A i \in DOMAIN content : content[i].k = "s"
HasUrl(content) == URL_RE_search(content)
IsOpsChannelName(channel_name) ==
  channel_name \in {StoredName(2), StoredName(8)}
FewMeaningful(content) == MeaningfulLen(content) < 5
IsLongText(content) == TextLen(Strip(content)) > 200

(* C8: the category is that of the first matching rule in the order        *)
(* empty or whitespace-only text -> MISC, URL -> INFO, operations channel  *)
(* -> OPS, fewer than 5 characters after removing non-word characters ->   *)
(* VIBE, more than 200 characters -> INSIGHT, otherwise MISC.              *)
C8_RuleOrder ==
  (Returned /\ call.fn = "classify_message") =>
    LET content == call.args[1]
        channel_name == call.args[2]
    IN call.result[1] =
         CASE IsWhitespaceOnly(content) -> "MISC"
           [] ~IsWhitespaceOnly(content) /\ HasUrl(content) -> "INFO"
           [] ~IsWhitespaceOnly(content) /\ ~HasUrl(content)
                /\ IsOpsChannelName(channel_name) -> "OPS"
           [] ~IsWhitespaceOnly(content) /\ ~HasUrl(content)
                /\ ~IsOpsChannelName(channel_name)
                /\ FewMeaningful(content) -> "VIBE"
           [] ~IsWhitespaceOnly(content) /\ ~HasUrl(content)
                /\ ~IsOpsChannelName(channel_name)
                /\ ~FewMeaningful(content) /\ IsLongText(content) -> "INSIGHT"
           [] OTHER -> "MISC"

(* a short plain text in an operations channel is OPS, not VIBE *)
C8_Witness ==
  /\ Returned
  /\ call.fn = "classify_message"
  /\ call.args = <<TextShort, StoredName(2)>>
  /\ call.result = Some("OPS")

(***************************************************************************)
(* Content: one message of any shape in any channel, alone or followed by  *)
(* an older long text in the music channel, and one reaction of user 2     *)
(***************************************************************************)
ContentChannelIds == 1..8
ContentShapes == {TextPlain, TextUrl, TextShort, TextLong, TextSpaces}

ContentMessages ==
  {<<Msg(1, uid, channel_id, content, Now)>> :
     uid \in AuthorIds, channel_id \in ContentChannelIds,
     content \in ContentShapes}
  \cup
  {<<Msg(1, uid, channel_id, content, Now), Msg(2, uid2, 5, TextLong, ts)>> :
     uid \in AuthorIds, channel_id \in ContentChannelIds,
     content \in ContentShapes, uid2 \in AuthorIds, ts \in EventStamps}

InitContent ==
  \E dm \in ContentMessages :
    InitBuild(dm, <<React(1, 2, Now, 1)>>, <<>>, DefaultCfg, Now)

SpecContent == InitContent /\ [][Next]_vars

(* the messages folded so far *)
FoldedMessages ==
  IF pc = "fold_messages" THEN SubSeq(messages, 1, cursor - 1)
  ELSE IF pc \in {"fold_reactions", "derive", "rank", "views", "done"}
       THEN messages
  ELSE <<>>

(* the values C9 states: base points per category, and the weight, in      *)
(* tenths, of each channel of the store: 1 "dev-game" (project and hobby), *)
(* 7 "Study-Hall" (knowledge), 5 "music" and 8 "game-admin" (hobby only),  *)
(* the others without a weight hint                                        *)
StatedBase ==
  [c \in Categories |->
     CASE c = "INFO" -> 5 [] c = "INSIGHT" -> 4 [] c = "VIBE" -> 3
       [] c = "OPS" -> 4 [] c = "MISC" -> 1]
StatedWeight ==
  [id \in ContentChannelIds |->
     CASE id \in {1, 7} -> 12 [] id \in {5, 8} -> 8 [] OTHER -> 10]

StatedPoints(message) ==
  StatedBase[classify_message(message.content, ChannelNameOf(message.channel_id))]
    * StatedWeight[message.channel_id]

(* C9: each folded message has added its category's base value times its   *)
(* channel's weight to its author's all-time raw score, which holds these  *)
(* products and 1.0 for each reaction the user gave.                       *)
C9_MessagePoints ==
  \A i \in 1..Len(user_stats) :
    LET uid == user_stats[i].user_id
    IN user_stats[i].raw_cp_total =
         SumSeq([k \in 1..Len(FoldedMessages) |->
                   IF FoldedMessages[k].user_id = uid
                   THEN StatedPoints(FoldedMessages[k]) ELSE 0])
         + 10 * Cardinality({k \in 1..Len(FoldedReactions) :
                               FoldedReactions[k].user_id = uid})

(* a link in "dev-game", which matches a project and a hobby hint, is worth *)
(* 5 x 1.2 = 6.0 to user 1                                                  *)
C9_Witness ==
  /\ Built
  /\ messages = <<Msg(1, 1, 1, TextUrl, Now)>>
  /\ \E i \in 1..Len(user_stats) :
       user_stats[i].user_id = 1 /\ user_stats[i].raw_cp_total = 60

(***************************************************************************)
(* Streaks: user 1 posts once on each day of any set of days from today    *)
(* back to MaxStreakAge days ago; user 2 reacts today or user 1 reacted    *)
(* yesterday                                                               *)
(***************************************************************************)
MaxStreakAge == 6
Today == DateOf(Now)

(* one message at noon of each chosen day, newest first *)
StreakMessages(ages) ==
  LET sorted == SortedDays(ages)
  IN [i \in 1..Len(sorted) |-> Msg(i, 1, 6, TextPlain, MinusDays(Now, sorted[i]))]

StreakReactions ==
  { <<React(1, 2, Now, 1)>>, <<React(1, 1, MinusDays(Now, 1), 1)>> }

InitStreak ==
  \E ages \in SUBSET (0..MaxStreakAge), dr \in StreakReactions :
    InitBuild(StreakMessages(ages), dr, <<>>, DefaultCfg, Now)

SpecStreak == InitStreak /\ [][Next]_vars

(* the days on which the rows of the build show the user active *)
ActiveDays(uid) ==
  {DateOf(messages[k].timestamp) :
     k \in {j \in 1..Len(messages) : messages[j].user_id = uid}}
  \cup
  {DateOf(reactions[k].created_at) :
     k \in {j \in 1..Len(reactions) : reactions[j].user_id = uid}}

(* the length of the run of consecutive days of the set that ends at day d *)
RunEndingAt(days, d) ==
  CHOOSE n \in 0..Cardinality(days) :
    /\ \A j \in 0..(n - 1) : (d - j) \in days
    /\ (d - n) \notin days

LongestRunOf(days) ==
  IF days = {} THEN 0
  ELSE CHOOSE n \in 1..Cardinality(days) :
         /\ \E d \in days : RunEndingAt(days, d) = n
         /\ \A d \in days : RunEndingAt(days, d) <= n

(* C10: longest_streak is the length of the longest run of consecutive     *)
(* days among the user's active days, current_streak the length of the run *)
(* that ends today, 0 when today is not active; {D-2, D-1, D} gives a      *)
(* current streak of 3, {D-5, D-3} a current streak of 0 and a longest of  *)
(* 1.                                                                      *)
C10_Streaks ==
  Derived =>
    \A i \in 1..Len(user_stats) :
      LET u == user_stats[i]
          days == ActiveDays(u.user_id)
      IN /\ u.activity_days = days
         /\ u.longest_streak = LongestRunOf(days)
         /\ u.current_streak = RunEndingAt(days, Today)
         /\ (days = {Today - 2, Today - 1, Today} => u.current_streak = 3)
         /\ (days = {Today - 5, Today - 3} =>
               u.current_streak = 0 /\ u.longest_streak = 1)

C10_Witness ==
  /\ Built
  /\ \E i \in 1..Len(user_stats) :
       /\ user_stats[i].activity_days = {Today - 5, Today - 3}
       /\ user_stats[i].current_streak = 0
       /\ user_stats[i].longest_streak = 1

(***************************************************************************)
(* DashboardTUI: refresh_current_page on a page of the core model          *)
(***************************************************************************)
(* DashboardTUI.__init__, lines 1094-1100: the options as the dashboard    *)
(* passes them to build_core_model                                         *)
TuiCfg(c) ==
  [trend_days |-> Max(1, c.trend_days),
   lookback_days |-> Max(30, c.lookback_days),
   max_messages |-> Max(1000, c.max_messages),
   max_reactions |-> Max(1000, c.max_reactions),
   max_users |-> Max(100, c.max_users)]

(* build_core_model is entered: it reads the clock and starts its first    *)
(* request with fresh locals                                               *)
StartBuild(t, fs) ==
  /\ pc' = "fetch_messages"
  /\ now' = t
  /\ faults' = fs
  /\ exc' = Nothing
  /\ fetch' = FetchStart(cfg.max_messages, DEFAULT_CHUNK_SIZE)
  /\ messages' = <<>>
  /\ reactions' = <<>>
  /\ channels' = <<>>
  /\ seen_user_ids' = <<>>
  /\ users' = <<>>
  /\ member_ts_by_user' = <<>>
  /\ user_stats' = <<>>
  /\ message_owner' = <<>>
  /\ channel_stats' = <<>>
  /\ channel_user_cp' = <<>>
  /\ category_totals' =
       [c2 \in Categories |-> [count |-> 0, raw_cp |-> 0, raw_cp_30d |-> 0]]
  /\ daily_total_cp' = <<>>
  /\ daily_total_messages' = <<>>
  /\ daily_active_users' = <<>>
  /\ heatmap_messages' = <<>>
  /\ heatmap_cp' = <<>>
  /\ edge_weights' = <<>>
  /\ cursor' = 1
  /\ ranked_30d' = <<>>
  /\ ranked_total' = <<>>
  /\ model' = Nothing
  /\ UNCHANGED <<cfg, call>>

(* lines 710-733: the dict build_core_model returns, with the aggregates   *)
(* it refers to                                                            *)
ReturnedModel ==
  [generated_at |-> model.generated_at,
   scan_days |-> model.scan_days,
   scan_since |-> model.scan_since,
   users_count |-> model.users_count,
   messages_count |-> model.messages_count,
   reactions_count |-> model.reactions_count,
   stats_by_user |-> user_stats,
   ranked_30d |-> ranked_30d,
   ranked_total |-> ranked_total,
   category_totals |-> category_totals,
   channel_rows |-> model.channel_rows,
   daily_total_cp |-> daily_total_cp,
   daily_total_messages |-> daily_total_messages,
   daily_active_users |-> daily_active_users,
   heatmap_messages |-> heatmap_messages,
   heatmap_cp |-> heatmap_cp,
   top_edges |-> model.top_edges,
   top_nodes |-> model.top_nodes,
   day_7_ago |-> model.day_7_ago,
   day_30_ago |-> model.day_30_ago]

(* the tables a request can fail on *)
Sources == {"messages", "reactions", "channels", "users", "members"}
(* a build in which no request fails, or those of one table do *)
FaultChoices == {{}} \cup {{t} : t \in Sources}
(* the clock at a later build: the same hour, or a day later *)
ClockReadings(t) == {t, t + 24}

MaxRefreshes == 2

(* lines 1111-1118: refresh_current_page clears last_error and calls       *)
(* build_core_model                                                        *)
RefreshCurrentPage ==
  /\ pc = "idle"
  /\ refreshes < MaxRefreshes
  /\ refreshes' = refreshes + 1
  /\ last_error' = Nothing
  /\ \E t \in ClockReadings(now), fs \in FaultChoices : StartBuild(t, fs)
  /\ UNCHANGED <<dbVars, cache, cached_from, botVars>>

(* lines 1118-1126: the returned model replaces cache["core"] *)
RefreshReturns ==
  /\ pc = "done"
  /\ cache' = Some(ReturnedModel)
  /\ cached_from' =
       Some([now |-> now, faults |-> faults,
             db |-> <<db_messages, db_reactions, db_members>>])
  /\ pc' = "idle"
  /\ UNCHANGED <<cfgVars, dbVars, fetch, fetchedVars, refVars, user_stats,
                 aggVars, edge_weights, cursor, ranked_30d, ranked_total,
                 model, call, faultVars, last_error, refreshes, botVars>>

(* lines 1127-1128: except Exception as exc: self.last_error = str(exc) *)
RefreshFails ==
  /\ pc = "raised"
  /\ last_error' = exc
  /\ exc' = Nothing
  /\ pc' = "idle"
  /\ UNCHANGED <<cfgVars, dbVars, fetch, fetchedVars, refVars, user_stats,
                 aggVars, edge_weights, cursor, ranked_30d, ranked_total,
                 model, call, faults, cache, refreshes, cached_from,
                 botVars>>

(* the orders in which a query sorted by date_column, newest first, may    *)
(* yield the rows of a table: rows of equal date in any order              *)
TieOrders(rows, date_column) ==
  {[i \in DOMAIN rows |-> rows[p[i]]] : p \in
     {q \in Permutations(DOMAIN rows) :
        \A i \in 1..(Len(rows) - 1) :
          rows[q[i]][date_column] >= rows[q[i + 1]][date_column]}}

(* between two refreshes the store comes to yield rows of equal date in    *)
(* another order                                                           *)
StoreReorders ==
  /\ pc = "idle"
  /\ cache # Nothing
  /\ \E dm \in TieOrders(db_messages, "timestamp"),
        dr \in TieOrders(db_reactions, "created_at") :
       /\ <<dm, dr>> # <<db_messages, db_reactions>>
       /\ db_messages' = dm
       /\ db_reactions' = dr
  /\ UNCHANGED <<pc, cfgVars, db_members, fetch, fetchedVars, refVars,
                 user_stats, aggVars, edge_weights, cursor, ranked_30d,
                 ranked_total, model, call, faultVars, tuiVars, botVars>>

(* Two users post the same text in the same channel in the same hour, and  *)
(* user 2 reacts; the trust rows hold full trust or are missing            *)
TuiMessages == <<Msg(1, 1, 6, TextPlain, Now), Msg(2, 2, 6, TextPlain, Now)>>
TuiReactions == <<React(1, 2, Now, 1)>>
TuiMembers ==
  {<<>>, <<Member(1, Some(100), Nothing), Member(2, Some(150), Nothing)>>}

InitTui ==
  \E members \in TuiMembers :
    InitState("idle", Nothing, NoFetch, TuiMessages, TuiReactions, members,
              TuiCfg(DefaultCfg), Now)

NextTui ==
  \/ Next
  \/ RefreshCurrentPage
  \/ RefreshReturns
  \/ RefreshFails
  \/ StoreReorders

SpecTui == InitTui /\ [][NextTui]_vars

----------------------------------------------------------------------------
(* Properties of repeated and failing builds                               *)

(* the build in the cache and the build that has just finished read the    *)
(* same rows, and no request of either failed                              *)
SameSnapshot ==
  /\ pc = "done"
  /\ cache # Nothing
  /\ cached_from[1].db = <<db_messages, db_reactions, db_members>>
  /\ cached_from[1].faults = {}
  /\ faults = {}

(* a returned model without the time stamp of its build *)
DerivedOutput(m) == [f \in (DOMAIN m) \ {"generated_at"} |-> m[f]]

(* C11: a build that runs on the rows an earlier build ran on returns the  *)
(* derived output the earlier build returned: nothing but the rows and an  *)
(* explicit parameter decides the output                                   *)
C11_Idempotent ==
  SameSnapshot => DerivedOutput(ReturnedModel) = DerivedOutput(cache[1])

(* a second build on the same rows that read the clock a day later *)
C11_Witness == SameSnapshot /\ now # cached_from[1].now

(* the build in the cache and the build that has just finished read the    *)
(* same rows at the same hour, the later one in another order              *)
SameRowsReordered ==
  /\ pc = "done"
  /\ cache # Nothing
  /\ faults = {}
  /\ cached_from[1].faults = {}
  /\ cached_from[1].now = now
  /\ cached_from[1].db[3] = db_members
  /\ Range(cached_from[1].db[1]) = Range(db_messages)
  /\ Range(cached_from[1].db[2]) = Range(db_reactions)
  /\ <<cached_from[1].db[1], cached_from[1].db[2]>> # <<db_messages, db_reactions>>

(* what the fold accumulates, without the order of dicts and lists: the    *)
(* users without their ranks, the category totals, the channel rows, the   *)
(* daily series, the heatmap and the edges                                 *)
FoldOutput(m) ==
  [users |-> {[f \in (DOMAIN u) \ {"rank_30d", "rank_total"} |-> u[f]] :
                u \in Range(m.stats_by_user)},
   category_totals |-> m.category_totals,
   channel_rows |-> Range(m.channel_rows),
   daily_total_cp |-> m.daily_total_cp,
   daily_total_messages |-> m.daily_total_messages,
   daily_active_users |-> m.daily_active_users,
   heatmap_messages |-> m.heatmap_messages,
   heatmap_cp |-> m.heatmap_cp,
   edges |-> Range(m.top_edges)]

(* C12: a build over the same message and reaction rows in another order   *)
(* accumulates the same user totals, category totals, channel rows with    *)
(* their champions, daily series, heatmap and edge weights                 *)
C12_OrderIndependent ==
  SameRowsReordered => FoldOutput(ReturnedModel) = FoldOutput(cache[1])

(* apart from the champions, the reordered build accumulates the same      *)
FoldAgreesButChampion ==
  SameRowsReordered =>
    LET rest(m) ==
          [FoldOutput(m) EXCEPT !.channel_rows =
             {[f \in (DOMAIN r) \ {"champ_user_id", "champ_name"} |-> r[f]] :
                r \in @}]
    IN rest(ReturnedModel) = rest(cache[1])

(* a reordered build over two messages of equal score in one channel *)
C12_Witness ==
  /\ SameRowsReordered
  /\ \E r \in Range(ReturnedModel.channel_rows) : r.messages_30d = 2

(* the requests for messages or for reactions fail in the running or last  *)
(* build                                                                   *)
FatalFault == faults \cap {"messages", "reactions"} # {}

(* C13: a build whose requests for messages or reactions fail stops at     *)
(* that fetch and its exception reaches the caller; refresh_current_page   *)
(* records it in last_error and leaves cache["core"] as it was: the cache  *)
(* changes only to the model of a build that ran to its end                *)
C13_FatalFetchFailure ==
  /\ [](FatalFault =>
         /\ pc \in {"fetch_messages", "fetch_reactions", "raised", "idle"}
         /\ model = Nothing
         /\ user_stats = <<>>
         /\ pc = "raised" => exc \in {Some(t) : t \in faults}
         /\ (pc = "idle" /\ refreshes > 0) =>
               last_error \in {Some(t) : t \in faults})
  /\ [][/\ pc = "raised" => (cache' = cache /\ last_error' = exc)
        /\ cache' # cache => (pc = "done" /\ cache' = Some(ReturnedModel))]_vars

(* a refresh has failed on messages or reactions while the model of an     *)
(* earlier refresh is in the cache                                         *)
C13_Witness ==
  /\ pc = "idle"
  /\ FatalFault
  /\ last_error \in {Some("messages"), Some("reactions")}
  /\ cache # Nothing
  /\ cached_from[1].faults = {}

(* the requests of exactly one reference table fail in the build *)
ReferenceFault == faults \in {{"channels"}, {"users"}, {"members"}}

(* the fallbacks a finished build shows for the tables in failed *)
UsesFallbacks(failed) ==
  /\ "channels" \in failed =>
       \A r \in Range(model.channel_rows) :
         r.channel_name = SyntheticChannelName(r.channel_id)
  /\ "users" \in failed =>
       \A u \in Range(user_stats) : u.username = SyntheticUserName(u.user_id)
  /\ "members" \in failed =>
       \A u \in Range(user_stats) : u.ts = DEFAULT_TS

(* C14: a build in which the requests of one reference table (channels,    *)
(* users or trust scores) fail is not aborted: no exception leaves it, and *)
(* its model names channels "channel-<id>", users "user-<id>" and gives    *)
(* the trust 100 for the table that failed                                 *)
C14_ReferenceFailureDegrades ==
  ReferenceFault =>
    /\ pc # "raised"
    /\ pc = "done" => UsesFallbacks(faults)

(* a build with users to look up in which the users request fails *)
C14_Witness ==
  /\ faults = {"users"}
  /\ pc = "fetch_users"
  /\ seen_user_ids # <<>>

(* a failure of the channels or of the trust requests alone degrades *)
ChannelsOrTrustFailureDegrades ==
  (ReferenceFault /\ "users" \notin faults) =>
    /\ pc # "raised"
    /\ pc = "done" => UsesFallbacks(faults)

(* the build in the cache and the build that has just finished ran at the  *)
(* same hour over the same rows, and requests failed in one that did not   *)
(* fail in the other                                                       *)
SameInputOtherFaults ==
  /\ pc = "done"
  /\ cache # Nothing
  /\ cached_from[1].now = now
  /\ cached_from[1].db = <<db_messages, db_reactions, db_members>>
  /\ cached_from[1].faults # faults

(* C15: what build_core_model hands to its caller tells which reference   *)
(* fetch failed: a build that fell back for a source returns something     *)
(* else than a build over the same input in which that source answered     *)
C15_FailureObservable ==
  SameInputOtherFaults => ReturnedModel # cache[1]

(* a build that finished although its trust requests failed, after a       *)
(* build in which no request failed                                        *)
C15_Witness ==
  /\ SameInputOtherFaults
  /\ faults = {"members"}
  /\ cached_from[1].faults = {}
  /\ last_error = Nothing

----------------------------------------------------------------------------
(* Properties of trust, ties, reactions and windows                        *)

(* the trust values stored for uid: of each of its rows the first column   *)
(* that holds a value                                                      *)
StoredTrust(uid) ==
  LET columns == <<"ts", "trust_score", "ts_score", "trust">>
      present(row) == {c \in DOMAIN columns : row[columns[c]] # Nothing}
      first(row) == row[columns[CHOOSE c \in present(row) :
                                  \A d \in present(row) : c <= d]][1]
  IN {first(db_members[k]) :
        k \in {m \in DOMAIN db_members :
                 /\ db_members[m].user_id = uid
                 /\ present(db_members[m]) # {}}}

(* C16: the trust of a user in the model is the stored trust brought into  *)
(* [0, 100], a stored 0 giving trust 0, and it is the default 100 only for *)
(* a user without a stored trust                                           *)
C16_StoredTrustClamped ==
  Derived =>
    \A u \in Range(user_stats) :
      IF StoredTrust(u.user_id) = {}
      THEN u.ts = DEFAULT_TS
      ELSE \E v \in StoredTrust(u.user_id) : u.ts = ClampTs(v)

(* a built model with a user whose stored trust is 0 *)
C16_Witness ==
  /\ Derived
  /\ \E u \in Range(user_stats) : StoredTrust(u.user_id) = {0}

(* the statement for every stored trust but 0 *)
NonZeroStoredTrustClamped ==
  Derived =>
    \A u \in Range(user_stats) :
      0 \notin StoredTrust(u.user_id) =>
        IF StoredTrust(u.user_id) = {}
        THEN u.ts = DEFAULT_TS
        ELSE \E v \in StoredTrust(u.user_id) : u.ts = ClampTs(v)

(***************************************************************************)
(* Builds over users of equal score                                        *)
(***************************************************************************)
MaxTied == 3
(* users without a row in users or members *)
TiedIds == 4..(3 + MaxTied)

(* the orders in which up to MaxTied of them may have posted *)
TiedOrders ==
  UNION {{o \in [1..k -> TiedIds] : \A i, j \in 1..k : o[i] = o[j] => i = j} :
           k \in 1..MaxTied}

(* one message each, of the same text in the same channel and hour; user 1 *)
(* reacts to the newest                                                    *)
InitTies ==
  \E o \in TiedOrders, members \in MembersTables :
    InitBuild([i \in DOMAIN o |-> Msg(i, o[i], 6, TextPlain, Now)],
              <<React(1, 1, Now, 1)>>, members, DefaultCfg, Now)

SpecTies == InitTies /\ [][Next]_vars

(* u and v have the same key in the ranking over eff_field and raw_field *)
Tied(u, v, eff_field, raw_field) ==
  /\ u.user_id # v.user_id
  /\ u[eff_field] = v[eff_field]
  /\ u[raw_field] = v[raw_field]

(* among users of equal key, the ranking by rank_field follows the user id, *)
(* ascending or descending                                                 *)
TiesFollowUserId(eff_field, raw_field, rank_field) ==
  LET tied == {p \in Range(user_stats) \X Range(user_stats) :
                 /\ Tied(p[1], p[2], eff_field, raw_field)
                 /\ p[1].user_id < p[2].user_id}
  IN \/ \A p \in tied : p[1][rank_field] < p[2][rank_field]
     \/ \A p \in tied : p[1][rank_field] > p[2][rank_field]

(* C17: among users equal in effective and in raw score, the order of      *)
(* ranks is the order of their user ids, whatever the order in which the   *)
(* rows were fetched or the users first seen                               *)
C17_TiesByUserId ==
  Built =>
    /\ TiesFollowUserId("effective_cp_30d", "raw_cp_30d", "rank_30d")
    /\ TiesFollowUserId("effective_cp_total", "raw_cp_total", "rank_total")

(* a ranked model with three users of equal score, first seen in an order  *)
(* that is neither ascending nor descending by id                          *)
C17_Witness ==
  /\ Built
  /\ \E i \in DOMAIN user_stats :
       /\ i + 2 \in DOMAIN user_stats
       /\ Tied(user_stats[i], user_stats[i + 1], "effective_cp_30d", "raw_cp_30d")
       /\ Tied(user_stats[i], user_stats[i + 2], "effective_cp_30d", "raw_cp_30d")
       /\ user_stats[i].user_id > user_stats[i + 1].user_id
       /\ user_stats[i + 1].user_id < user_stats[i + 2].user_id

(* a field of uid's entry in stats, 0 while uid has no entry *)
TotalIn(stats, uid, field) ==
  IF HasUser(stats, uid) THEN stats[UserIdx(stats, uid)][field] ELSE 0

(* edge_weights[(reactor_id, author_id)], 0 while there is no such edge *)
EdgeWeightIn(edges, reactor_id, author_id) ==
  SumSeq([i \in DOMAIN edges |->
            IF edges[i][1] = <<reactor_id, author_id>> THEN edges[i][2] ELSE 0])

(* the ids that occur in rows, and 0 *)
EdgeIds == AuthorIds \cup ReactorIds \cup {0}

(* the reaction loop is about to fold a reaction of a known reactor *)
ReactionStep ==
  /\ pc = "fold_reactions"
  /\ cursor <= Len(reactions)
  /\ reactions[cursor].user_id # 0

(* C18: folding a reaction adds the reaction score 1.0 to the reactor's    *)
(* raw total and 1 to its reactions given, whether or not the target was   *)
(* fetched; the edge reactor -> author of the target gains 1.0 exactly     *)
(* when the target is a message folded in this build whose author is not   *)
(* the reactor, and no other edge changes; a target that was not fetched   *)
(* gives no edge                                                           *)
C18_ReactionEdges ==
  [][ReactionStep =>
       LET reactor_id == reactions[cursor].user_id
           author_id == AuthorOf(reactions[cursor].message_id)
           gains(x, y) ==
             IF x = reactor_id /\ y = author_id /\ y # 0 /\ y # x
             THEN 10 ELSE 0
       IN /\ TotalIn(user_stats', reactor_id, "raw_cp_total")
               = TotalIn(user_stats, reactor_id, "raw_cp_total") + REACTION_GIVE_CP
          /\ TotalIn(user_stats', reactor_id, "reaction_given_total")
               = TotalIn(user_stats, reactor_id, "reaction_given_total") + 1
          /\ \A x, y \in EdgeIds :
               EdgeWeightIn(edge_weights', x, y)
                 = EdgeWeightIn(edge_weights, x, y) + gains(x, y)
          /\ \A i \in DOMAIN edge_weights' :
               /\ edge_weights'[i][1][1] \in EdgeIds \ {0}
               /\ edge_weights'[i][1][2] \in EdgeIds \ {0}]_vars

(* a folded reaction to a message that was not fetched: the reactor has    *)
(* its point and its count, and there is no edge                           *)
C18_Witness ==
  /\ pc = "derive"
  /\ \E k \in DOMAIN reactions :
       /\ reactions[k].user_id # 0
       /\ reactions[k].message_id \notin
            {messages[i].message_id : i \in DOMAIN messages}
       /\ messages # <<>>
       /\ TotalIn(user_stats, reactions[k].user_id, "reaction_given_total") = 1
  /\ edge_weights = <<>>

(* the message loop is about to fold a message with a user and an id *)
MessageStep ==
  /\ pc = "fold_messages"
  /\ cursor <= Len(messages)
  /\ messages[cursor].user_id # 0
  /\ messages[cursor].message_id # 0

(* the message about to be folded is older than the trend window *)
BeforeTrendWindow == DateOf(messages[cursor].timestamp) < trend_start

(* C19: folding a message whose day is before the trend window leaves the  *)
(* daily series (score, message count, active users per day) and every     *)
(* heatmap bucket as they were; a message within the window adds 1 to its  *)
(* (weekday, hour) bucket                                                  *)
C19_TrendWindowOnly ==
  [][MessageStep =>
       LET ts == messages[cursor].timestamp
           key == <<WeekdayOf(ts), HourOf(ts)>>
       IN IF BeforeTrendWindow
          THEN UNCHANGED <<daily_total_cp, daily_total_messages,
                           daily_active_users, heatmap_messages, heatmap_cp>>
          ELSE Get(heatmap_messages', key, 0)
                 = Get(heatmap_messages, key, 0) + 1]_vars

(* a message older than the trend window has been folded *)
C19_Witness ==
  /\ pc = "fold_reactions"
  /\ \E k \in DOMAIN messages :
       /\ messages[k].user_id # 0
       /\ DateOf(messages[k].timestamp) < trend_start

(* the daily series alone: a message before the trend window leaves it *)
DailySeriesTrendWindowOnly ==
  [][(MessageStep /\ BeforeTrendWindow) =>
       UNCHANGED <<daily_total_cp, daily_total_messages, daily_active_users>>]_vars

(* the user ids of the message and reaction rows the build fetched and     *)
(* kept                                                                    *)
KeptRowUserIds ==
  {messages[i].user_id : i \in DOMAIN messages}
    \cup {reactions[i].user_id : i \in DOMAIN reactions}

(* C20: every user with an entry in user_stats is the user of a message or *)
(* reaction row that this build fetched and kept                           *)
C20_StatsOnlyForObserved ==
  \A u \in UserIds : u # 0 /\ u \in KeptRowUserIds

(* a built model with entries, while the users table holds a user without  *)
(* a kept row, who has no entry                                            *)
C20_Witness ==
  /\ Built
  /\ UserIds # {}
  /\ \E i \in DOMAIN db_users :
       /\ db_users[i].user_id \notin KeptRowUserIds
       /\ db_users[i].user_id \notin UserIds

(***************************************************************************)
(* resolve_focus_user and the per-user detail view                         *)
(***************************************************************************)
(* str.isdigit() on a string of ASCII characters *)
IsDigitStr(s) == s # <<>> /\ \A i \in DOMAIN s : s[i] \in Range(Digit)

(* int(selector) for a string of digits *)
RECURSIVE StrToInt(_)
StrToInt(s) ==
  IF s = <<>> THEN 0
  ELSE 10 * StrToInt(SubSeq(s, 1, Len(s) - 1))
         + ((CHOOSE d \in DOMAIN Digit : Digit[d] = s[Len(s)]) - 1)

(* ranked[0], lines 741 and 755 *)
FocusFallback(ranked, by_user) == Some(by_user[UserIdx(by_user, ranked[1])])

(* lines 736-755; the result is None (Nothing) or a user's stats *)
resolve_focus_user(ranked, by_user, selector) ==
  LET selector_l == Lower(selector)
      exact == SelectSeq(by_user, LAMBDA u : Lower(u.username) = selector_l)
      partial == SelectSeq(by_user,
                           LAMBDA u : IsSubstring(selector_l, Lower(u.username)))
      sorted == SortedDesc([i \in DOMAIN partial |->
                              << <<partial[i].effective_cp_30d, 0>>, partial[i] >>],
                           <<>>)
  IN IF ranked = <<>> THEN Nothing
     ELSE IF selector = <<>> THEN FocusFallback(ranked, by_user)
     ELSE IF IsDigitStr(selector)
          THEN IF HasUser(by_user, StrToInt(selector))
               THEN Some(by_user[UserIdx(by_user, StrToInt(selector))])
               ELSE Nothing
     ELSE IF exact # <<>> THEN Some(exact[1])
     ELSE IF partial # <<>> THEN Some(sorted[1][2])
     ELSE FocusFallback(ranked, by_user)

(* the selectors tried: none, ids of tracked and untracked users, a name   *)
(* in another case, parts of names, and a text that is in no name          *)
Selectors ==
  { <<>>, <<"2">>, <<"7">>, <<"b","o","b">>, <<"L","I","C">>, <<"e">>,
    <<"z","e","d">> }

(* lines 816-819: lines_mystats resolves the selector on the built model *)
LinesMystats ==
  /\ pc = "done"
  /\ \E selector \in Selectors :
       call' = [fn |-> "resolve_focus_user", args |-> <<selector>>,
                result |-> Some(resolve_focus_user(ranked_30d, user_stats,
                                                   selector))]
  /\ pc' = "returned"
  /\ UNCHANGED <<cfgVars, dbVars, fetch, fetchedVars, refVars, user_stats,
                 aggVars, edge_weights, cursor, ranked_30d, ranked_total,
                 model, faultVars, tuiVars, botVars>>

(* builds over no, one or two messages; the reaction has no reactor, or    *)
(* user 3 gives it                                                         *)
FocusMessages ==
  { <<>>, <<Msg(1, 1, 6, TextPlain, Now)>>,
    <<Msg(1, 2, 6, TextUrl, Now), Msg(2, 1, 6, TextPlain, Now)>> }
FocusReactions == { <<React(9, 0, Now, 1)>>, <<React(1, 3, Now, 1)>> }

InitFocus ==
  \E dm \in FocusMessages, dr \in FocusReactions, members \in MembersTables :
    InitBuild(dm, dr, members, DefaultCfg, Now)

NextFocus == Next \/ LinesMystats

SpecFocus == InitFocus /\ [][NextFocus]_vars

(* lines_mystats has resolved a selector *)
Resolved == Returned /\ call.fn = "resolve_focus_user"

(* the selector of the call is the id or the lower-cased name of a tracked *)
(* user, or is part of one's lower-cased name                              *)
SelectorMatches ==
  LET selector == call.args[1]
  IN \E u \in Range(user_stats) :
       \/ IsDigitStr(selector) /\ StrToInt(selector) = u.user_id
       \/ IsSubstring(Lower(selector), Lower(u.username))

(* C21: on a model with users, a selector that matches no tracked user by  *)
(* id or by name resolves to the first user of the 30-day ranking; the     *)
(* result is no user only on a model without users                         *)
C21_FocusFallsBackToTop ==
  Resolved =>
    /\ (user_stats # <<>> /\ ~SelectorMatches) =>
         call.result[1] = Some(StatsOf(ranked_30d[1]))
    /\ call.result[1] = Nothing => user_stats = <<>>

(* a selector that is the id of no tracked user, on a model with users *)
C21_Witness ==
  /\ Resolved
  /\ user_stats # <<>>
  /\ call.args[1] = <<"7">>
  /\ ~SelectorMatches

(* the statement for selectors that are not numbers *)
NameSelectorFallsBackToTop ==
  (Resolved /\ ~IsDigitStr(call.args[1])) =>
    /\ (user_stats # <<>> /\ ~SelectorMatches) =>
         call.result[1] = Some(StatsOf(ranked_30d[1]))
    /\ call.result[1] = Nothing => user_stats = <<>>

(***************************************************************************)
(* Builds under any option values, from both entry points                  *)
(***************************************************************************)
(* values of --days, --lookback-days, --max-messages, --max-reactions and  *)
(* --max-users, lines 141-181: defaults, small, zero and negative ones     *)
OptionValues ==
  [trend_days : {-3, 0, 14, 120}, lookback_days : {-1, 30, 90},
   max_messages : {-1, 0, 50000}, max_reactions : {0, 50000},
   max_users : {-1, 0, 2, 5000}]

(* the arguments build_core_model gets from DashboardTUI (lines 1118-1125) *)
(* and from run_non_tui (lines 1271-1278) for the options o                *)
BuildArguments(o) == {TuiCfg(o), o}

(* users 1 and 2 post today and 31 days ago, user 3 reacts *)
OptionMessages ==
  <<Msg(1, 1, 6, TextPlain, Now), Msg(2, 2, 6, TextPlain, MinusDays(Now, 31))>>
OptionReactions == <<React(1, 3, Now, 1)>>

InitOptions ==
  \E o \in OptionValues : \E c \in BuildArguments(o) :
    InitBuild(OptionMessages, OptionReactions, <<>>, c, Now)

SpecOptions == InitOptions /\ [][Next]_vars

(* C22: the trend window is at least the lookback window: the first day    *)
(* for which the daily series accumulates events is no later than the      *)
(* first day of the scanned window, for every trend and lookback length    *)
C22_TrendCoversLookback == trend_start <= DateOf(since_dt)

(* a build that has folded a message of the scanned window whose day is    *)
(* before the first day of the daily series                                *)
C22_Witness ==
  /\ Built
  /\ \E k \in DOMAIN messages :
       /\ messages[k].timestamp >= since_dt
       /\ DateOf(messages[k].timestamp) < trend_start
       /\ DateOf(messages[k].timestamp) \notin DOMAIN daily_total_messages

(* the daily series starts after the first scanned day under every option *)
TrendStartsInsideScan == trend_start > DateOf(since_dt)

(* the user cap the build applies, line 477: none unless max_users > 0 *)
AppliedUserCap == IF cfg.max_users > 0 THEN Some(cfg.max_users) ELSE Nothing

(* C23: under any option values, on both entry paths, a build scans at     *)
(* least the last 30 days, requests messages and reactions with a cap of   *)
(* at least 1 row, and applies a positive cap on the tracked users         *)
C23_MinimumsEnforced ==
  /\ scan_days >= 30
  /\ pc \in {"fetch_messages", "fetch_reactions"} => fetch.max_rows >= 1
  /\ AppliedUserCap # Nothing
  /\ Built => Len(user_stats) <= AppliedUserCap[1]

(* a build from the one-shot run with --max-users 0 that tracks all three  *)
(* observed users                                                          *)
C23_Witness ==
  /\ Built
  /\ cfg.max_users = 0
  /\ Len(user_stats) = 3

(* the scan window and the row caps alone *)
ScanAndRowMinimumsEnforced ==
  /\ scan_days >= 30
  /\ pc \in {"fetch_messages", "fetch_reactions"} => fetch.max_rows >= 1
  /\ (Built /\ AppliedUserCap # Nothing) => Len(user_stats) <= AppliedUserCap[1]

(***************************************************************************)
(* Builds over reactions of any weight, reactor, target and age            *)
(***************************************************************************)
(* reaction rows: to the fetched message 1 or the unfetched 9, by the      *)
(* author 1 or by users 2 and 3, today or 31 days ago, with any weight     *)
ReactionRows ==
  [message_id : {1, 9}, user_id : {1, 2, 3},
   created_at : {Now, MinusDays(Now, 31)}, weight : {0, 1, 5}]

(* one or two of them, newest first *)
ReactionLists ==
  {<<r>> : r \in ReactionRows}
    \cup {p \in ReactionRows \X ReactionRows :
            p[2].created_at <= p[1].created_at}

InitReact ==
  \E dr \in ReactionLists :
    InitBuild(<<Msg(1, 1, 6, TextPlain, Now)>>, dr, <<>>, DefaultCfg, Now)

SpecReact == InitReact /\ [][Next]_vars

(* the entry of uid in stats, or none *)
EntryIn(stats, uid) ==
  IF HasUser(stats, uid) THEN Some(stats[UserIdx(stats, uid)]) ELSE Nothing

(* C24: folding a reaction adds 1.0 to the reactor's all-time raw score,   *)
(* and to its 30-day raw score when the reaction's day is within the last  *)
(* 30 days, whatever the weight of the row; the entry of every other user, *)
(* the author of the target among them, stays as it was                    *)
C24_ReactionTouchesReactorOnly ==
  [][ReactionStep =>
       LET reactor_id == reactions[cursor].user_id
           in30 == DateOf(reactions[cursor].created_at) >= day_30_ago
       IN /\ TotalIn(user_stats', reactor_id, "raw_cp_total")
               = TotalIn(user_stats, reactor_id, "raw_cp_total") + 10
          /\ TotalIn(user_stats', reactor_id, "raw_cp_30d")
               = TotalIn(user_stats, reactor_id, "raw_cp_30d")
                   + (IF in30 THEN 10 ELSE 0)
          /\ \A uid \in EdgeIds \ {reactor_id} :
               EntryIn(user_stats', uid) = EntryIn(user_stats, uid)]_vars

(* a reaction of weight 5 to the message of another user has been folded;  *)
(* the author holds only the score of the message                          *)
C24_Witness ==
  /\ pc = "derive"
  /\ Len(reactions) = 1
  /\ reactions[1].weight = 5
  /\ reactions[1].user_id = 2
  /\ reactions[1].message_id = 1
  /\ TotalIn(user_stats, 2, "raw_cp_total") = 10
  /\ TotalIn(user_stats, 1, "reaction_given_total") = 0

(***************************************************************************)
(* fetch_members_ts_by_ids called alone, with requests that raise          *)
(***************************************************************************)
(* id lists around the chunk size: 1..n *)
MemberIdCounts ==
  {0, 1, 2, ID_CHUNK - 1, ID_CHUNK, ID_CHUNK + 1, ID_CHUNK + 2}

(* members tables with rows for ids of the first and of the second chunk *)
WideMembersTables ==
  { <<>>,
    <<Member(1, Some(40), Nothing), Member(ID_CHUNK + 1, Some(60), Nothing)>>,
    <<Member(ID_CHUNK + 1, Some(60), Nothing)>>,
    <<Member(2, Some(0), Some(25)), Member(ID_CHUNK, Some(150), Nothing)>> }

(* the requests that raise: chunks of the lookup by user_id *)
FailingRequests == SUBSET {<<"user_id", 1>>, <<"user_id", 2>>}

InitMembers ==
  \E n \in MemberIdCounts, members \in WideMembersTables,
     failing \in FailingRequests :
    InitState("call",
              Call("fetch_members_ts_by_ids", <<[i \in 1..n |-> i], failing>>),
              NoFetch, <<>>, <<>>, members, DefaultCfg, Now)

CallFetchMembersTs ==
  /\ pc = "call"
  /\ call.fn = "fetch_members_ts_by_ids"
  /\ call' = [call EXCEPT
                !.result = Some(FetchMembersTsByIds(call.args[1], call.args[2]))]
  /\ pc' = "returned"
  /\ UNCHANGED <<cfgVars, dbVars, fetch, fetchedVars, refVars, user_stats,
                 aggVars, edge_weights, cursor, ranked_30d, ranked_total,
                 model, faultVars, tuiVars, botVars>>

NextMembers == CallFetchMembersTs

SpecMembers == InitMembers /\ [][NextMembers]_vars

(* the lookup by id_col for user_ids ends without an exception *)
LookupSucceeds(id_col, user_ids, failing) ==
  /\ id_col \in MembersColumns
  /\ \A k \in DOMAIN chunked(user_ids, ID_CHUNK) : <<id_col, k>> \notin failing

(* the trust values of the rows found through id_col alone *)
TrustThrough(id_col, user_ids) ==
  IF id_col \in MembersColumns
  THEN MembersRowsToMap(RowsIn(db_members, id_col, user_ids), id_col, <<>>)
  ELSE <<>>

(* C25: the result of fetch_members_ts_by_ids holds the trust values found *)
(* through one id column: the first of user_id, member_id,                 *)
(* discord_user_id, id whose lookup succeeds with a non-empty mapping; it  *)
(* is the empty mapping when every lookup fails or finds nothing           *)
C25_FirstNonEmptyCandidate ==
  (Returned /\ call.fn = "fetch_members_ts_by_ids") =>
    LET user_ids == call.args[1]
        failing == call.args[2]
        winners == {c \in DOMAIN id_candidates :
                      /\ LookupSucceeds(id_candidates[c], user_ids, failing)
                      /\ DOMAIN TrustThrough(id_candidates[c], user_ids) # {}}
    IN call.result[1] =
         IF winners = {} THEN <<>>
         ELSE TrustThrough(
                id_candidates[CHOOSE c \in winners : \A d \in winners : c <= d],
                user_ids)

(* the second request of the lookup by user_id raised after the first had  *)
(* found a row                                                             *)
C25_Witness ==
  /\ Returned
  /\ call.fn = "fetch_members_ts_by_ids"
  /\ call.args[2] = {<<"user_id", 2>>}
  /\ Len(call.args[1]) > ID_CHUNK
  /\ \E i \in DOMAIN db_members : db_members[i].user_id = 1

(* the statement for calls in which no request raises after an earlier one *)
(* of the same lookup was answered                                         *)
FirstNonEmptyUnlessPartial ==
  (Returned /\ call.fn = "fetch_members_ts_by_ids"
     /\ call.args[2] # {<<"user_id", 2>>}) =>
    C25_FirstNonEmptyCandidate

----------------------------------------------------------------------------
(* The per-user and the per-category view of one build                     *)

(* the reactions folded so far that have a reactor *)
CountedReactions ==
  Cardinality({k \in DOMAIN FoldedReactions : FoldedReactions[k].user_id # 0})

(* C29: the users' all-time raw scores add up to the categories' raw       *)
(* scores plus 1.0 for each folded reaction, and the categories' message   *)
(* counts add up to the users' all-time message counts                     *)
C29_ViewsAgree ==
  /\ SumSeq([i \in DOMAIN user_stats |-> user_stats[i].raw_cp_total])
       = SumOver([c \in Categories |-> category_totals[c].raw_cp], Categories)
           + 10 * CountedReactions
  /\ CountedByCategory = CountedByUsers

(* a built model with messages of two categories and a reaction *)
C29_Witness ==
  /\ Built
  /\ CountedReactions = 1
  /\ Cardinality({c \in Categories : category_totals[c].count > 0}) = 2
  /\ Len(user_stats) = 2

(***************************************************************************)
(* fetch_rows_window while the bot inserts rows                            *)
(***************************************************************************)
MaxInserts == 2

(* the rows inserted since the fetch began: they are posted in channel 5,  *)
(* the rows of the table before it in channel 6                            *)
Inserted == {i \in DOMAIN db_messages : db_messages[i].channel_id = 5}

(* a fetch of messages is between two of its page requests *)
FetchingMessages ==
  \/ pc = "fetch_messages"
  \/ pc = "call" /\ call.fn = "fetch_rows_window"

(* the store gets a new message while the fetch runs: it is the newest row *)
(* and so the first of the next answer, which is ordered by timestamp      *)
(* descending (line 330) and cut by offset (line 331)                      *)
InsertMessage ==
  /\ FetchingMessages
  /\ Cardinality(Inserted) < MaxInserts
  /\ db_messages' =
       <<Msg(Len(db_messages) + 1, 1, 5, TextPlain, Now)>> \o db_messages
  /\ UNCHANGED <<pc, cfgVars, db_reactions, db_members, fetch, fetchedVars,
                 refVars, user_stats, aggVars, edge_weights, cursor,
                 ranked_30d, ranked_total, model, call, faultVars, tuiVars, botVars>>

(* tables of 0 to 5 rows; calls with caps and page sizes that need several *)
(* page requests, and builds with the default page size                    *)
InsertTableSizes == {0, 1, 2, 3, 5}
InsertCaps == {2, 4, 10}
InsertPageSizes == {1, 2, 3}

InitInsert ==
  \E a \in InsertTableSizes :
    \/ \E cap \in InsertCaps, size \in InsertPageSizes :
         InitCall(Call("fetch_rows_window",
                       <<"timestamp", ScanCutoff, cap, size>>),
                  FetchStart(cap, size), WindowTable(a, 0))
    \/ InitBuild(WindowTable(a, 0), <<React(1, 2, Now, 1)>>, <<>>,
                 DefaultCfg, Now)

NextInsert ==
  \/ InsertMessage
  \/ CallFetchRowsWindow
  \/ Next

SpecInsert == InitInsert /\ [][NextInsert]_vars

(* no two rows of the list are the same message *)
NoRowTwice(rows) ==
  \A i, j \in DOMAIN rows : i # j => rows[i].message_id # rows[j].message_id

(* C30: the rows one fetch_rows_window call has collected, and returns,    *)
(* hold no message twice, and neither do the messages a build folds, also  *)
(* when rows are inserted between two page requests                        *)
C30_NoRowFetchedTwice ==
  /\ NoRowTwice(fetch.rows)
  /\ NoRowTwice(messages)
  /\ (Returned /\ call.fn = "fetch_rows_window") => NoRowTwice(call.result[1])

(* a call has made a page request, then a row was inserted, and the call   *)
(* has made another page request                                           *)
C30_Witness ==
  /\ Returned
  /\ call.fn = "fetch_rows_window"
  /\ Inserted # {}
  /\ Len(call.result[1]) >= 2
  /\ \E k \in DOMAIN call.result[1] : call.result[1][k].channel_id = 6
  /\ \E i \in Inserted :
       \A k \in DOMAIN call.result[1] :
         call.result[1][k].message_id # db_messages[i].message_id

(* without an insert no row is fetched twice *)
NoRowTwiceUnlessInserted ==
  Inserted = {} => C30_NoRowFetchedTwice

(***************************************************************************)
(* The ingestion bot: src/src/bot.py over src/src/database.py              *)
(***************************************************************************)
(* scores in tenths of a point, NLP multipliers in tenths *)
BASE_SCORE_PER_MESSAGE == 10
REPLY_SCORE_MULTIPLIER == 50
REACTION_BASE_WEIGHT == 20
REACTION_SPECIAL_WEIGHT == 50
VALID_MULTIPLIERS == {1, 5, 10, 12, 15}
SPECIAL_REACTION_EMOJIS == {"fire", "rocket", "thumbsup", "+1"}

(* no dashboard call is running *)
DashboardStopped ==
  InitDashboard("stopped", Nothing, NoFetch, <<>>, <<>>, <<>>, DefaultCfg, Now)

(* a row of the users table as upsert_user creates it *)
UserRow(current_score, weekly_score) ==
  [current_score |-> current_score, weekly_score |-> weekly_score]

(* a coroutine suspended at an await: the handler it runs, the request it  *)
(* makes next, the event it handles and its local variables                *)
Task(handler, at, event) ==
  [handler |-> handler, pc |-> at, event |-> event,
   message |-> Nothing,     \* message / parent_message of the handler
   weight |-> 0,
   row |-> Nothing,         \* the row the running read-modify-write has read
   score_uid |-> 0, score_delta |-> 0,  \* update_user_score's arguments
   ret |-> "done"]          \* where update_user_score returns to

(* process 0 is the NLP worker, process i > 0 the i-th handler in flight *)
Procs == DOMAIN tasks \cup (IF nlp_worker = Nothing THEN {} ELSE {0})
Proc(p) == IF p = 0 THEN nlp_worker[1] ELSE tasks[p]

RemoveAt(s, i) == SubSeq(s, 1, i - 1) \o SubSeq(s, i + 1, Len(s))

(* the coroutine goes on as t: a handler that has returned is gone, the    *)
(* worker waits at queue.get() again                                       *)
Resume(p, t) ==
  IF p = 0
    THEN /\ nlp_worker' = Some(t)
         /\ UNCHANGED tasks
    ELSE /\ tasks' = IF t.pc = "done" THEN RemoveAt(tasks, p)
                     ELSE [tasks EXCEPT ![p] = t]
         /\ UNCHANGED nlp_worker

(* the caller's code after update_user_score returns, up to its next await: *)
(* bot.py 195-203 after the call of line 192, the end of the handler after  *)
(* those of lines 211 and 280, task_done() after that of line 110           *)
AfterScore(t) ==
  CASE t.ret = "put" ->
         [t EXCEPT !.pc = IF t.event.reference # 0 THEN "get_parent" ELSE "done"]
    [] t.ret = "task_done" -> [t EXCEPT !.pc = "get"]
    [] OTHER -> [t EXCEPT !.pc = "done"]

(* bot.py 195-200: a message with content is queued for NLP analysis *)
QueueAfterScore(t) ==
  IF t.ret = "put" /\ t.event.content # ""
    THEN Append(nlp_task_queue,
                <<t.event.message_id, t.event.content, t.event.user_id>>)
    ELSE nlp_task_queue

(* what a returned update_user_score call leaves of the coroutine's locals *)
Forget(t) == [t EXCEPT !.row = Nothing, !.score_uid = 0, !.score_delta = 0]

(* a reaction handler's addition to the author's score, for the history *)
CreditAuthor(t) ==
  IF t.handler = "on_raw_reaction_add"
    THEN LET k == <<t.event.message_id, t.event.user_id, t.event.emoji>>
         IN [credited EXCEPT ![k].author = @ + 1]
    ELSE credited

(* database.py 176-179: update_user_score reads the user's row with        *)
(* get_user, one request; it returns None when there is no row             *)
update_user_score_get ==
  \E p \in Procs :
  LET t == Proc(p)
  IN /\ storage_backend = "supabase"
     /\ t.pc = "get_user"
     /\ IF t.score_uid \in DOMAIN users_table
          THEN /\ Resume(p, [t EXCEPT !.row = Some(users_table[t.score_uid]),
                                      !.pc = "update_users"])
               /\ UNCHANGED nlp_task_queue
          ELSE /\ Resume(p, AfterScore(Forget(t)))
               /\ nlp_task_queue' = QueueAfterScore(t)
     /\ UNCHANGED <<dashVars, storeVars, storage_backend, memory_lock, events, credited,
                    users_at_start>>

(* the row update_user_score writes: both scores of the row it has read,   *)
(* plus the delta (lines 181-182)                                          *)
ScoresPlus(row, score_delta) ==
  UserRow(row.current_score + score_delta, row.weekly_score + score_delta)

(* database.py 181-194: update_user_score writes the scores it computed    *)
(* from the row it has read, a second request                              *)
update_user_score_update ==
  \E p \in Procs :
  LET t == Proc(p)
  IN /\ storage_backend = "supabase"
     /\ t.pc = "update_users"
     /\ users_table' =
          [users_table EXCEPT ![t.score_uid] = ScoresPlus(t.row[1], t.score_delta)]
     /\ credited' = CreditAuthor(t)
     /\ Resume(p, AfterScore(Forget(t)))
     /\ nlp_task_queue' = QueueAfterScore(t)
     /\ UNCHANGED <<dashVars, messages_table, reactions_table, storage_backend,
                    memory_lock, events, users_at_start>>

(* storage.py 199: async with self._lock *)
memory_lock_acquire ==
  \E p \in DOMAIN tasks :
  /\ storage_backend = "memory"
  /\ tasks[p].pc = "get_user"
  /\ memory_lock = 0
  /\ memory_lock' = 1
  /\ tasks' = [tasks EXCEPT ![p].pc = "locked"]
  /\ UNCHANGED <<dashVars, storeVars, storage_backend, nlp_task_queue, nlp_worker,
                 events, credited, users_at_start>>

(* storage.py 200-207: the body of MemoryStorage.update_user_score, which  *)
(* has no await, and the release of the lock                               *)
memory_update_user_score ==
  \E p \in DOMAIN tasks :
  LET t == tasks[p]
  IN /\ storage_backend = "memory"
     /\ t.pc = "locked"
     /\ users_table' =
          IF t.score_uid \in DOMAIN users_table
            THEN [users_table EXCEPT ![t.score_uid] =
                    ScoresPlus(users_table[t.score_uid], t.score_delta)]
            ELSE users_table
     /\ memory_lock' = 0
     /\ Resume(p, AfterScore(Forget(t)))
     /\ UNCHANGED <<dashVars, messages_table, reactions_table, storage_backend,
                    nlp_task_queue, events, credited, users_at_start>>

(* the deltas the bot passes: a message, a reply, a reaction, and the      *)
(* differences an NLP multiplier of 1.5 or 0.1 makes                       *)
ScoreDeltas ==
  {BASE_SCORE_PER_MESSAGE, REPLY_SCORE_MULTIPLIER, REACTION_BASE_WEIGHT,
   5, 0 - 9}

ScoreCall(user_id, score_delta) ==
  [kind |-> "update_user_score", user_id |-> user_id, delta |-> score_delta]

ScoreTask(e) ==
  [Task("update_user_score", "get_user", e)
     EXCEPT !.score_uid = e.user_id, !.score_delta = e.delta]

(* two calls of update_user_score for one user are about to run, on either *)
(* store                                                                   *)
InitScore ==
  /\ DashboardStopped
  /\ storage_backend \in {"supabase", "memory"}
  /\ users_table \in {(1 :> UserRow(0, 0)), (1 :> UserRow(35, 10))}
  /\ messages_table = <<>>
  /\ reactions_table = {}
  /\ nlp_task_queue = <<>>
  /\ \E d1, d2 \in ScoreDeltas :
       /\ events = <<ScoreCall(1, d1), ScoreCall(1, d2)>>
       /\ tasks = <<ScoreTask(ScoreCall(1, d1)), ScoreTask(ScoreCall(1, d2))>>
  /\ nlp_worker = Nothing
  /\ memory_lock = 0
  /\ credited = <<>>
  /\ users_at_start = users_table

NextScore ==
  \/ update_user_score_get
  \/ update_user_score_update
  \/ memory_lock_acquire
  \/ memory_update_user_score

SpecScore == InitScore /\ [][NextScore]_vars

(* the deltas of the update_user_score calls made for a user *)
DeltasFor(user_id) ==
  SumSeq([i \in DOMAIN events |->
            IF events[i].kind = "update_user_score" /\ events[i].user_id = user_id
              THEN events[i].delta ELSE 0])

ScoreCallsReturned ==
  /\ events # <<>>
  /\ events[1].kind = "update_user_score"
  /\ tasks = <<>>

(* C28: when two update_user_score calls for a user have returned, in any  *)
(* interleaving of their requests, the user's current_score and            *)
(* weekly_score are each larger than before by the sum of the two deltas,  *)
(* on the Supabase-backed store and on the in-memory store                 *)
C28_NoLostUpdate ==
  ScoreCallsReturned =>
    \A u \in DOMAIN users_at_start :
      users_table[u] = ScoresPlus(users_at_start[u], DeltasFor(u))

(* on the Supabase-backed store both calls have read the user's row and    *)
(* neither has written yet                                                 *)
C28_Witness ==
  /\ storage_backend = "supabase"
  /\ Len(tasks) = 2
  /\ \A i \in DOMAIN tasks :
       tasks[i].handler = "update_user_score" /\ tasks[i].pc = "update_users"

(* the in-memory store, whose update holds the lock, loses no update *)
MemoryStoreNoLostUpdate ==
  storage_backend = "memory" => C28_NoLostUpdate

(***************************************************************************)
(* The handlers of the ingestion bot                                       *)
(***************************************************************************)
MaxEvents == 3

(* database.py 385-389, 434-438, 481-485: a message's total score *)
TotalScore(base_score, nlp_score_multiplier, reply_count, reaction_score) ==
  (base_score * nlp_score_multiplier) \div 10
    + reply_count * REPLY_SCORE_MULTIPLIER + reaction_score

(* database.py 309-321: the row insert_message creates; reply_count and    *)
(* reaction_score take the column default 0                                *)
MessageRow(user_id, base_score, nlp_score_multiplier) ==
  [user_id |-> user_id, base_score |-> base_score,
   nlp_score_multiplier |-> nlp_score_multiplier, reply_count |-> 0,
   reaction_score |-> 0,
   total_score |-> (base_score * nlp_score_multiplier) \div 10]

(* scoring.py 94-99 *)
calculate_reaction_weight(emoji) ==
  IF emoji \in SPECIAL_REACTION_EMOJIS THEN REACTION_SPECIAL_WEIGHT
  ELSE REACTION_BASE_WEIGHT

MessageEvent(message_id, user_id, content, reference) ==
  [kind |-> "message", message_id |-> message_id, user_id |-> user_id,
   content |-> content, reference |-> reference]

ReactionEvent(message_id, user_id, emoji) ==
  [kind |-> "reaction", message_id |-> message_id, user_id |-> user_id,
   emoji |-> emoji]

(* the messages the guild's members post: message 1, a text, and message   *)
(* 2, a reply to it without text (an image)                                *)
MessageEvents ==
  {MessageEvent(1, 1, "hello", 0), MessageEvent(2, 2, "", 1)}

(* the reactions put on message 1: by another member, by its author *)
ReactionEvents ==
  {ReactionEvent(1, 2, "fire"), ReactionEvent(1, 2, "eyes"),
   ReactionEvent(1, 1, "fire")}

ReactionKey(e) == <<e.message_id, e.user_id, e.emoji>>
ReactionKeys == {ReactionKey(e) : e \in ReactionEvents}

(* the bot is running on an empty store: setup_hook has started the NLP    *)
(* worker, which waits at queue.get()                                      *)
InitBot ==
  /\ DashboardStopped
  /\ storage_backend = "supabase"
  /\ users_table = <<>>
  /\ messages_table = <<>>
  /\ reactions_table = {}
  /\ nlp_task_queue = <<>>
  /\ tasks = <<>>
  /\ nlp_worker = Some(Task("_nlp_worker", "get", Nothing))
  /\ memory_lock = 0
  /\ events = <<>>
  /\ credited = [k \in ReactionKeys |-> [message |-> 0, author |-> 0]]
  /\ users_at_start = <<>>

botFrame == <<dashVars, storage_backend, memory_lock, users_at_start>>

(* discord.py dispatches on_message(message) as a task of its own; bot.py  *)
(* 162-171: a member's message in a guild reaches the first request        *)
on_message ==
  \E e \in MessageEvents :
    /\ Len(events) < MaxEvents
    /\ \A i \in DOMAIN events :
         events[i].kind = "message" => events[i].message_id # e.message_id
    /\ events' = Append(events, e)
    /\ tasks' = Append(tasks, Task("on_message", "upsert_user", e))
    /\ UNCHANGED <<botFrame, storeVars, nlp_task_queue, nlp_worker, credited>>

(* bot.py 171-174, database.py 117-123: the upsert creates the author's    *)
(* row with scores 0, or leaves the scores of the row there is             *)
upsert_user ==
  \E p \in DOMAIN tasks :
    LET t == tasks[p]
    IN /\ t.pc = "upsert_user"
       /\ users_table' =
            IF t.event.user_id \in DOMAIN users_table THEN users_table
            ELSE (t.event.user_id :> UserRow(0, 0)) @@ users_table
       /\ Resume(p, [t EXCEPT !.pc = "insert_message"])
       /\ UNCHANGED <<botFrame, messages_table, reactions_table,
                      nlp_task_queue, events, credited>>

(* bot.py 177-192, database.py 309-323: the message is stored with         *)
(* multiplier 1.0, then update_user_score(author, base score) is called    *)
insert_message ==
  \E p \in DOMAIN tasks :
    LET t == tasks[p]
    IN /\ t.pc = "insert_message"
       /\ messages_table' =
            (t.event.message_id :>
               MessageRow(t.event.user_id, BASE_SCORE_PER_MESSAGE, 10))
              @@ messages_table
       /\ Resume(p, [t EXCEPT !.pc = "get_user",
                              !.score_uid = t.event.user_id,
                              !.score_delta = (BASE_SCORE_PER_MESSAGE * 10) \div 10,
                              !.ret = "put"])
       /\ UNCHANGED <<botFrame, users_table, reactions_table, nlp_task_queue,
                      events, credited>>

(* bot.py 203-205: the parent of a reply is looked up; the handler ends    *)
(* when the store does not hold it                                         *)
get_parent_message ==
  \E p \in DOMAIN tasks :
    LET t == tasks[p]
        found == t.event.reference \in DOMAIN messages_table
    IN /\ t.pc = "get_parent"
       /\ Resume(p, IF found
                      THEN [t EXCEPT !.message =
                                       Some(messages_table[t.event.reference]),
                                     !.pc = "reply_get"]
                      ELSE [t EXCEPT !.pc = "done"])
       /\ UNCHANGED <<botFrame, storeVars, nlp_task_queue, events, credited>>

(* database.py 470-472: increment_reply_count reads the parent's row *)
increment_reply_count_get ==
  \E p \in DOMAIN tasks :
    LET t == tasks[p]
    IN /\ t.pc = "reply_get"
       /\ Resume(p, [t EXCEPT !.row = Some(messages_table[t.event.reference]),
                              !.pc = "reply_update"])
       /\ UNCHANGED <<botFrame, storeVars, nlp_task_queue, events, credited>>

(* database.py 474-493, bot.py 208-211: increment_reply_count writes the   *)
(* reply count and the total it computed from the row it has read, then    *)
(* update_user_score(parent's author, 5.0) is called                       *)
increment_reply_count_update ==
  \E p \in DOMAIN tasks :
    LET t == tasks[p]
        m == t.row[1]
    IN /\ t.pc = "reply_update"
       /\ messages_table' =
            [messages_table EXCEPT
               ![t.event.reference].reply_count = m.reply_count + 1,
               ![t.event.reference].total_score =
                  TotalScore(m.base_score, m.nlp_score_multiplier,
                             m.reply_count + 1, m.reaction_score)]
       /\ Resume(p, [t EXCEPT !.pc = "get_user", !.row = Nothing,
                              !.score_uid = t.message[1].user_id,
                              !.score_delta = REPLY_SCORE_MULTIPLIER,
                              !.ret = "done"])
       /\ UNCHANGED <<botFrame, users_table, reactions_table, nlp_task_queue,
                      events, credited>>

(* discord.py dispatches on_raw_reaction_add(payload) as a task of its     *)
(* own, once for every reaction a member adds: the same reaction again     *)
(* after it was removed; bot.py 237-242                                    *)
on_raw_reaction_add ==
  \E e \in ReactionEvents :
    /\ Len(events) < MaxEvents
    /\ events' = Append(events, e)
    /\ tasks' = Append(tasks, Task("on_raw_reaction_add", "get_message", e))
    /\ UNCHANGED <<botFrame, storeVars, nlp_task_queue, nlp_worker, credited>>

(* bot.py 242-249: the handler ends when the store does not hold the       *)
(* message or the reactor is its author                                    *)
reaction_get_message ==
  \E p \in DOMAIN tasks :
    LET t == tasks[p]
        found == t.event.message_id \in DOMAIN messages_table
    IN /\ t.pc = "get_message"
       /\ Resume(p, IF found /\ messages_table[t.event.message_id].user_id
                                  # t.event.user_id
                      THEN [t EXCEPT !.message =
                                       Some(messages_table[t.event.message_id]),
                                     !.pc = "check_reaction_exists"]
                      ELSE [t EXCEPT !.pc = "done"])
       /\ UNCHANGED <<botFrame, storeVars, nlp_task_queue, events, credited>>

(* database.py 621-632: whether the store holds the key; False when the    *)
(* request raises                                                          *)
ReactionExists(key) == {key \in reactions_table, FALSE}

(* bot.py 255-266, database.py 604-632: the handler ends when the reaction *)
(* exists, and computes the weight otherwise                               *)
check_reaction_exists ==
  \E p \in DOMAIN tasks :
    LET t == tasks[p]
    IN /\ t.pc = "check_reaction_exists"
       /\ \E exists \in ReactionExists(ReactionKey(t.event)) :
            Resume(p, IF exists THEN [t EXCEPT !.pc = "done"]
                      ELSE [t EXCEPT !.pc = "insert_reaction",
                                     !.weight =
                                        calculate_reaction_weight(t.event.emoji)])
       /\ UNCHANGED <<botFrame, storeVars, nlp_task_queue, events, credited>>

(* bot.py 269-274, database.py 586-594: an upsert on the key *)
insert_reaction ==
  \E p \in DOMAIN tasks :
    LET t == tasks[p]
    IN /\ t.pc = "insert_reaction"
       /\ reactions_table' = reactions_table \cup {ReactionKey(t.event)}
       /\ Resume(p, [t EXCEPT !.pc = "reaction_score_get"])
       /\ UNCHANGED <<botFrame, users_table, messages_table, nlp_task_queue,
                      events, credited>>

(* database.py 423-425: update_message_reaction_score reads the row *)
update_message_reaction_score_get ==
  \E p \in DOMAIN tasks :
    LET t == tasks[p]
    IN /\ t.pc = "reaction_score_get"
       /\ Resume(p, [t EXCEPT !.row = Some(messages_table[t.event.message_id]),
                              !.pc = "reaction_score_update"])
       /\ UNCHANGED <<botFrame, storeVars, nlp_task_queue, events, credited>>

(* database.py 427-446, bot.py 277-280: update_message_reaction_score      *)
(* writes the reaction score and the total it computed from the row it has *)
(* read, then update_user_score(author, weight) is called                  *)
update_message_reaction_score_update ==
  \E p \in DOMAIN tasks :
    LET t == tasks[p]
        m == t.row[1]
    IN /\ t.pc = "reaction_score_update"
       /\ messages_table' =
            [messages_table EXCEPT
               ![t.event.message_id].reaction_score = m.reaction_score + t.weight,
               ![t.event.message_id].total_score =
                  TotalScore(m.base_score, m.nlp_score_multiplier,
                             m.reply_count, m.reaction_score + t.weight)]
       /\ credited' = [credited EXCEPT ![ReactionKey(t.event)].message = @ + 1]
       /\ Resume(p, [t EXCEPT !.pc = "get_user", !.row = Nothing,
                              !.score_uid = t.message[1].user_id,
                              !.score_delta = t.weight,
                              !.ret = "done"])
       /\ UNCHANGED <<botFrame, users_table, reactions_table, nlp_task_queue,
                      events>>

(* bot.py 91-98: the worker takes the next queued message and has it       *)
(* analysed; nlp_analyzer.analyze returns one of the valid multipliers     *)
nlp_worker_get ==
  /\ nlp_worker # Nothing
  /\ nlp_worker[1].pc = "get"
  /\ nlp_task_queue # <<>>
  /\ nlp_task_queue' = Tail(nlp_task_queue)
  /\ \E multiplier \in VALID_MULTIPLIERS :
       nlp_worker' =
         Some([Task("_nlp_worker", "nlp_get",
                    [message_id |-> Head(nlp_task_queue)[1],
                     user_id |-> Head(nlp_task_queue)[3]])
                 EXCEPT !.weight = multiplier])
  /\ UNCHANGED <<botFrame, storeVars, tasks, events, credited>>

(* database.py 375-377: update_message_nlp_score reads the row *)
update_message_nlp_score_get ==
  LET t == nlp_worker[1]
  IN /\ nlp_worker # Nothing
     /\ t.pc = "nlp_get"
     /\ nlp_worker' = Some([t EXCEPT !.row = Some(messages_table[t.event.message_id]),
                                     !.pc = "nlp_update"])
     /\ UNCHANGED <<botFrame, storeVars, nlp_task_queue, tasks, events, credited>>

(* bot.py 104-110: the delta the worker adds to the author's score is the  *)
(* updated message's total score minus the base score of a message         *)
NlpScoreDelta(new_score) == new_score - BASE_SCORE_PER_MESSAGE

(* database.py 379-401, bot.py 101-111: update_message_nlp_score writes    *)
(* the multiplier and the total it computed from the row it has read; the  *)
(* worker calls update_user_score(author, delta) when the delta is not 0   *)
update_message_nlp_score_update ==
  LET t == nlp_worker[1]
      m == t.row[1]
      total_score == TotalScore(m.base_score, t.weight, m.reply_count,
                                m.reaction_score)
      score_delta == NlpScoreDelta(total_score)
  IN /\ nlp_worker # Nothing
     /\ t.pc = "nlp_update"
     /\ messages_table' =
          [messages_table EXCEPT
             ![t.event.message_id].nlp_score_multiplier = t.weight,
             ![t.event.message_id].total_score = total_score]
     /\ nlp_worker' =
          Some(IF score_delta # 0
                 THEN [t EXCEPT !.pc = "get_user", !.row = Nothing,
                                !.score_uid = t.event.user_id,
                                !.score_delta = score_delta,
                                !.ret = "task_done"]
                 ELSE [t EXCEPT !.pc = "get", !.row = Nothing])
     /\ UNCHANGED <<botFrame, users_table, reactions_table, nlp_task_queue,
                    tasks, events, credited>>

NextBot ==
  \/ on_message
  \/ upsert_user
  \/ insert_message
  \/ get_parent_message
  \/ increment_reply_count_get
  \/ increment_reply_count_update
  \/ on_raw_reaction_add
  \/ reaction_get_message
  \/ check_reaction_exists
  \/ insert_reaction
  \/ update_message_reaction_score_get
  \/ update_message_reaction_score_update
  \/ nlp_worker_get
  \/ update_message_nlp_score_get
  \/ update_message_nlp_score_update
  \/ update_user_score_get
  \/ update_user_score_update

SpecBot == InitBot /\ [][NextBot]_vars

(* tools/recalc_scores.py 54-98: the score recalc_scores gives a user, the *)
(* sum of total_score over the user's stored messages                      *)
RecalcScore(user_id) ==
  LET ids == {m \in DOMAIN messages_table : messages_table[m].user_id = user_id}
      Sum[S \in SUBSET ids] ==
        IF S = {} THEN 0
        ELSE LET m == CHOOSE x \in S : TRUE
             IN messages_table[m].total_score + Sum[S \ {m}]
  IN Sum[ids]

(* the NLP queue is empty, the worker waits for work, no handler is in     *)
(* flight                                                                  *)
Quiescent ==
  /\ nlp_worker # Nothing
  /\ nlp_worker[1].pc = "get"
  /\ nlp_task_queue = <<>>
  /\ tasks = <<>>

(* a stored message's total is base score x multiplier + 5 x reply count + *)
(* reaction score                                                          *)
TotalsConsistent ==
  \A m \in DOMAIN messages_table :
    LET r == messages_table[m]
    IN r.total_score = TotalScore(r.base_score, r.nlp_score_multiplier,
                                  r.reply_count, r.reaction_score)

(* C26: once the NLP queue is empty and no handler is in flight, each      *)
(* user's current_score is the sum of total_score, which is base score x   *)
(* multiplier + 5 x reply count + reaction score, over the user's stored   *)
(* messages                                                                *)
C26_ScoreIsSumOfTotals ==
  Quiescent =>
    /\ TotalsConsistent
    /\ \A u \in DOMAIN users_table :
         users_table[u].current_score = RecalcScore(u)

(* the bot is quiescent after a message that was analysed, replied to and  *)
(* reacted to                                                              *)
C26_Witness ==
  /\ Quiescent
  /\ 1 \in DOMAIN messages_table
  /\ messages_table[1].nlp_score_multiplier # 10
  /\ messages_table[1].reply_count > 0
  /\ messages_table[1].reaction_score > 0

(* the weights of the reactions the store holds for a message *)
StoredWeight(message_id) ==
  LET keys == {k \in reactions_table : k[1] = message_id}
      Sum[S \in SUBSET keys] ==
        IF S = {} THEN 0
        ELSE LET k == CHOOSE x \in S : TRUE
             IN calculate_reaction_weight(k[3]) + Sum[S \ {k}]
  IN Sum[keys]

(* C27: a (message, reactor, emoji) key adds its weight to the message's   *)
(* reaction score at most once, so that the reaction score never exceeds   *)
(* the weights of the stored keys, and to the author's score at most once, *)
(* under concurrent events for the key and when the existence check fails, *)
(* and a reaction by the message's author adds nothing                     *)
C27_ReactionCreditedOnce ==
  /\ \A m \in DOMAIN messages_table :
       messages_table[m].reaction_score <= StoredWeight(m)
  /\ \A k \in DOMAIN credited :
       /\ credited[k].author <= 1
       /\ (k[1] \in DOMAIN messages_table /\ messages_table[k[1]].user_id = k[2])
            => credited[k].message = 0 /\ credited[k].author = 0

(* two handlers of one reaction key are past the existence check at once *)
C27_Witness ==
  \E i, j \in DOMAIN tasks :
    /\ i # j
    /\ tasks[i].handler = "on_raw_reaction_add"
    /\ tasks[j].handler = "on_raw_reaction_add"
    /\ ReactionKey(tasks[i].event) = ReactionKey(tasks[j].event)
    /\ tasks[i].pc = "insert_reaction"
    /\ tasks[j].pc = "insert_reaction"

(* a reaction by the message's own author adds nothing *)
SelfReactionAddsNothing ==
  \A k \in DOMAIN credited :
    (k[1] \in DOMAIN messages_table /\ messages_table[k[1]].user_id = k[2])
      => credited[k].message = 0 /\ credited[k].author = 0

====
